---- MODULE Spec2Model ----
(***************************************************************************)
(* Model of the layered elastoplastic beam material LayeredBeam            *)
(* (src/src/materials/LayeredBeam.C, declarations in                       *)
(* src/include/materials/PlasticBeam.h).                                   *)
(*                                                                         *)
(* The code computes with C++ doubles (Real).  The model computes with     *)
(* exact rationals <<n, d>> (d > 0, lowest terms): every +, -, * and / of  *)
(* the code is the exact operation, so rounding error is not modelled.     *)
(* Layer i of the code (0-based) is index i + 1 of the model's sequences;  *)
(* quadrature point _qp and vector/tensor components are 0-based in the    *)
(* code and 1-based in the model.                                          *)
(***************************************************************************)
EXTENDS Integers, Sequences, FiniteSets, TLC

(***************************************************************************)
(* Exact rational arithmetic (the model of Real).                          *)
(***************************************************************************)
IAbs(n) == IF n < 0 THEN -n ELSE n

RECURSIVE GCD(_, _)
GCD(a, b) == IF b = 0 THEN a ELSE GCD(b, a % b)

Rat(n, d) ==
  LET g == GCD(IAbs(n), IAbs(d))
      s == IF d < 0 THEN -1 ELSE 1
  IN  <<(s * n) \div g, (s * d) \div g>>

RI(n) == <<n, 1>>
R0 == RI(0)
R1 == RI(1)
RHalf == <<1, 2>>

(* common factors are cancelled before multiplying, which keeps the        *)
(* intermediate integers small                                             *)
CommonFactor(m, n) == LET g == GCD(IAbs(m), IAbs(n)) IN IF g = 0 THEN 1 ELSE g

RAdd(a, b) ==
  IF a[1] = 0 THEN b
  ELSE IF b[1] = 0 THEN a
  ELSE IF a[2] = b[2] THEN Rat(a[1] + b[1], a[2])
  ELSE LET g == CommonFactor(a[2], b[2])
       IN  Rat(a[1] * (b[2] \div g) + b[1] * (a[2] \div g), (a[2] \div g) * b[2])
RNeg(a) == <<-a[1], a[2]>>
RSub(a, b) == RAdd(a, RNeg(b))
RMul(a, b) ==
  IF a[2] = 1 /\ b[2] = 1 THEN <<a[1] * b[1], 1>>
  ELSE LET g == CommonFactor(a[1], b[2])
           h == CommonFactor(b[1], a[2])
       IN  Rat((a[1] \div g) * (b[1] \div h), (a[2] \div h) * (b[2] \div g))
RDiv(a, b) == RMul(a, IF b[1] < 0 THEN <<-b[2], -b[1]>> ELSE <<b[2], b[1]>>)
RAbs(a) == <<IAbs(a[1]), a[2]>>
RLe(a, b) == a[1] * b[2] <= b[1] * a[2]
RLt(a, b) == a[1] * b[2] < b[1] * a[2]
RGt(a, b) == RLt(b, a)

(* 3-vectors and 3x3 tensors of rationals (RealVectorValue, RankTwoTensor) *)
VZero == <<R0, R0, R0>>
VOfInt(v) == <<RI(v[1]), RI(v[2]), RI(v[3])>>
VAdd(u, v) == [k \in 1..3 |-> RAdd(u[k], v[k])]
VSub(u, v) == [k \in 1..3 |-> RSub(u[k], v[k])]
VScale(c, v) == [k \in 1..3 |-> RMul(c, v[k])]
VDot(u, v) == RAdd(RAdd(RMul(u[1], v[1]), RMul(u[2], v[2])), RMul(u[3], v[3]))
MZero == <<VZero, VZero, VZero>>
MVec(m, v) == [r \in 1..3 |-> VDot(m[r], v)]
MTranspose(m) == [r \in 1..3 |-> [c \in 1..3 |-> m[c][r]]]
MMul(a, b) == [r \in 1..3 |-> [c \in 1..3 |-> VDot(a[r], MTranspose(b)[c])]]
MNeg(m) == [r \in 1..3 |-> [c \in 1..3 |-> RNeg(m[r][c])]]

(***************************************************************************)
(* Bounds of the model.                                                    *)
(***************************************************************************)
MaxSteps == 1
MonotonicSteps == 50
MaxRefinedLayers == 6
MaxLayers == 3
NumQp == 2

(* _max_its(1000), the iteration cap of the local Newton solve *)
max_its == 1000

(***************************************************************************)
(* Configuration: the input parameters read by the constructor and the     *)
(* host data that stay fixed (mesh geometry, section and material          *)
(* properties).  Hardening functions are piecewise linear with one         *)
(* breakpoint xb: value f0 + s1*x up to xb, slope s2 beyond it.  The       *)
(* section properties are coupled values, indexed by quadrature point:     *)
(* area, Ay, ... are the entries [0] and area1, Ay1, ... the entries [1]   *)
(* (and beyond).  FnKink                                                   *)
(* stiffens at xb = 1/6: the Newton step of computeQpStress, which takes   *)
(* the derivative at the previous accumulated strain, then alternates      *)
(* between two iterates and never meets the tolerances.                    *)
(***************************************************************************)
NoFn == [kind |-> "none"]
FnLinear == [kind |-> "pw", f0 |-> R1, s1 |-> R1, s2 |-> R1, xb |-> R0]
FnKink == [kind |-> "pw", f0 |-> R1, s1 |-> R1, s2 |-> RI(4), xb |-> Rat(1, 6)]

Tolerances ==
  { <<Rat(1, 100), Rat(1, 100)>>, <<Rat(1, 2), Rat(1, 10)>>,
    <<Rat(1, 10), Rat(1, 2)>>, <<Rat(1, 2), Rat(1, 2)>> }

E1 == <<1, 0, 0>>
E2 == <<0, 1, 0>>
E3 == <<0, 0, 1>>

BaseConfig ==
  [ nlayers |-> 2, nqp |-> 1, width |-> RI(3), depth |-> RI(2),
    material_flexure |-> RI(2), yield_stress |-> R1,
    hardening_constant |-> R0, hardening_function |-> NoFn,
    absolute_tolerance |-> Rat(1, 100), relative_tolerance |-> Rat(1, 100),
    large_strain |-> FALSE, ndisp |-> 3, nrot |-> 3,
    area |-> RI(6), Ay |-> R0, Az |-> R0, Iy |-> RI(2), Iz |-> RI(1),
    has_Ix |-> FALSE, Ix |-> R0,
    area1 |-> RI(6), Ay1 |-> R0, Az1 |-> R0, Iy1 |-> RI(2), Iz1 |-> RI(1), Ix1 |-> R0,
    material_stiffness |-> <<RI(4), RI(1)>>,
    y_orientation |-> E2,
    disp_eigenstrain_increment |-> <<0, 0, 0>>, rot_eigenstrain_increment |-> <<0, 0, 0>>,
    elems |-> {1}, axis |-> [e \in {1} |-> E1], length |-> [e \in {1} |-> 1] ]

LinearConfigs ==
  { [BaseConfig EXCEPT !.hardening_constant = h,
                       !.absolute_tolerance = t[1], !.relative_tolerance = t[2]] :
      h \in {R0, R1}, t \in Tolerances }
  \cup
  { [BaseConfig EXCEPT !.nlayers = n, !.hardening_constant = R1,
                       !.absolute_tolerance = t[1], !.relative_tolerance = t[2]] :
      n \in 1..MaxLayers, t \in {<<Rat(1, 100), Rat(1, 100)>>, <<Rat(1, 2), Rat(1, 2)>>} }

FunctionConfigs ==
  { [BaseConfig EXCEPT !.hardening_function = f] : f \in {FnLinear, FnKink} }

(* a beam along the global y axis whose section varies along the element *)
TaperedConfig ==
  [BaseConfig EXCEPT !.axis = [e \in {1} |-> E2], !.y_orientation = E3,
                     !.length = [e \in {1} |-> 2], !.nqp = NumQp,
                     !.area1 = RI(8), !.Iy1 = RI(4), !.Iz1 = RI(3),
                     !.hardening_constant = R1]

OtherConfigs ==
  { [BaseConfig EXCEPT !.large_strain = TRUE, !.hardening_constant = R1, !.nqp = NumQp],
    [BaseConfig EXCEPT !.Ay = R1, !.Az = RI(2), !.Ay1 = R1, !.Az1 = RI(2),
                       !.has_Ix = TRUE, !.Ix = RI(3), !.Ix1 = RI(5),
                       !.hardening_constant = R1, !.length = [e \in {1} |-> 2]],
    [BaseConfig EXCEPT !.y_orientation = E1],
    TaperedConfig }

(* configurations the constructor has to judge *)
SetupConfigs ==
  { [BaseConfig EXCEPT !.large_strain = TRUE, !.Ay = R1, !.Ay1 = R1],
    [BaseConfig EXCEPT !.large_strain = TRUE, !.Az1 = R1, !.nqp = NumQp],
    [BaseConfig EXCEPT !.large_strain = TRUE, !.Ay = RI(-1), !.Ay1 = RI(-1)],
    [BaseConfig EXCEPT !.nrot = 2] }

MainConfigs == LinearConfigs \cup FunctionConfigs \cup OtherConfigs \cup SetupConfigs

(* two elements with different axes sharing one material object *)
FrameConfigs ==
  { [BaseConfig EXCEPT !.elems = {1, 2}, !.y_orientation = E3,
                       !.axis = [e \in {1, 2} |-> IF e = 1 THEN E1 ELSE E2],
                       !.length = [e \in {1, 2} |-> 1],
                       !.hardening_constant = h] :
      h \in {R0, R1} }

(* nodal increments sol - sol_old of one call: _disp0, _disp1, _rot0, _rot1 *)
Z3 == <<0, 0, 0>>
In(d0, d1, r0, r1) == [disp0 |-> d0, disp1 |-> d1, rot0 |-> r0, rot1 |-> r1]
Inputs ==
  { In(Z3, Z3, Z3, Z3), In(Z3, Z3, Z3, <<0, 0, 1>>), In(Z3, Z3, Z3, <<0, 0, 2>>),
    In(Z3, Z3, <<0, 0, 1>>, <<0, 0, -1>>), In(Z3, <<1, 0, 0>>, <<0, 1, 0>>, <<1, 1, 0>>) }
FrameInputs ==
  { In(Z3, Z3, Z3, Z3), In(Z3, Z3, Z3, <<0, 0, 2>>), In(Z3, Z3, Z3, <<2, 0, 0>>) }

(* The calls of the host: the nodal increments and whether the Jacobian is *)
(* being computed.  The residual is evaluated for the pure rotation        *)
(* increments, the Jacobian for the increment that has displacement and    *)
(* rotation gradients and average rotations at once.                       *)
JacobianInput == In(Z3, <<1, 0, 0>>, <<0, 1, 0>>, <<1, 1, 0>>)
Calls ==
  { <<in, FALSE>> : in \in Inputs \ {JacobianInput} } \cup { <<JacobianInput, TRUE>> }
FrameCalls ==
  { <<In(Z3, Z3, Z3, Z3), FALSE>>, <<In(Z3, Z3, Z3, <<0, 0, 2>>), FALSE>>,
    <<In(Z3, Z3, Z3, <<2, 0, 0>>), TRUE>> }

(***************************************************************************)
(* State.                                                                  *)
(*  cfg     input parameters and fixed host data                           *)
(*  pc      position of the host/material: "construct", "setup", "ready",  *)
(*          "qpstrain", "layer", "newton", "layerfin", "qpfinish",         *)
(*          "stiffness", "done", "failed", "error"                         *)
(*  olc     _original_local_config, a member of the material object        *)
(*  inp     _disp0, _disp1, _rot0, _rot1 (members)                         *)
(*  grad    _grad_disp_0_local_t, _grad_rot_0_local_t, _avg_rot_local_t    *)
(*  cur     current stateful properties per element and quadrature point   *)
(*  old     their previous-step snapshots (getMaterialPropertyOld)         *)
(*  prop    the other declared properties per element and quadrature point *)
(*  elem    _current_elem, qp  _qp                                         *)
(*  loc     locals of computeQpStress                                      *)
(*  step    number of time steps the host has accepted                     *)
(*  status  per element: outcome of the latest computeProperties call      *)
(*  inited  elements whose stateful properties have been initialized       *)
(*  yielded history: some layer's yield condition has been exceeded        *)
(*  accepted history: per quadrature point and layer of the running/latest *)
(*          call, the increment with which the Newton loop was left        *)
(*  jac     _fe_problem.currentlyComputingJacobian() during the call       *)
(*  K       per element, the stiffness blocks _K11[0], _K21[0],            *)
(*          _K21_cross[0], _K22[0], _K22_cross[0]                          *)
(***************************************************************************)
VARIABLES cfg, pc, olc, inp, grad, cur, old, prop, elem, qp, loc, step, status,
          inited, yielded, accepted, jac, K

vars == <<cfg, pc, olc, inp, grad, cur, old, prop, elem, qp, loc, step, status,
          inited, yielded, accepted, jac, K>>

Layers == 1..cfg.nlayers
Qps == 1..cfg.nqp
NoInc == [left |-> FALSE, dEp |-> R0, residual |-> R0, reference_residual |-> R0,
          iteration |-> 0]

ZeroLayers == [i \in Layers |-> R0]

(* mutant: the hardening variables are not zeroed *)
InitStatefulHardeningUnset ==
  [ direct_stress |-> ZeroLayers, plastic_strain |-> ZeroLayers,
    hardening_variable |-> [i \in Layers |-> R1], stres |-> R0, total_stretch |-> R0,
    total_disp_strain |-> VZero, total_rot_strain |-> VZero ]

(* values written by initQpStatefulProperties *)
InitStateful ==
  [ direct_stress |-> ZeroLayers, plastic_strain |-> ZeroLayers,
    hardening_variable |-> ZeroLayers, stres |-> R0, total_stretch |-> R0,
    total_disp_strain |-> VZero, total_rot_strain |-> VZero ]

DefaultProp ==
  [ total_rotation |-> MZero, initial_rotation |-> MZero, original_length |-> R0,
    mech_disp_strain_increment |-> VZero, mech_rot_strain_increment |-> VZero ]

ZeroBlocks ==
  [ K11 |-> MZero, K21 |-> MZero, K21_cross |-> MZero, K22 |-> MZero,
    K22_cross |-> MZero ]

InitLoc ==
  [ strain_increment |-> R0, zmidl |-> R0, thick |-> R0, moment |-> R0, i |-> 0,
    trial_stress |-> R0, yield_condition |-> R0, iteration |-> 0,
    plastic_strain_increment |-> R0, elastic_strain_increment |-> R0,
    residual |-> R0, reference_residual |-> R0 ]

InitWith(configs) ==
  /\ cfg \in configs
  /\ pc = "construct"
  /\ olc = MZero
  /\ inp = In(Z3, Z3, Z3, Z3)
  /\ grad = [grad_disp_0_local_t |-> VZero, grad_rot_0_local_t |-> VZero,
             avg_rot_local_t |-> VZero]
  /\ cur = [e \in cfg.elems |-> [q \in Qps |-> InitStateful]]
  /\ old = [e \in cfg.elems |-> [q \in Qps |-> InitStateful]]
  /\ prop = [e \in cfg.elems |-> [q \in Qps |-> DefaultProp]]
  /\ elem = CHOOSE e \in cfg.elems : TRUE
  /\ qp = 1
  /\ loc = InitLoc
  /\ step = 0
  /\ status = [e \in cfg.elems |-> "none"]
  /\ inited = {}
  /\ yielded = FALSE
  /\ accepted = [q \in Qps |-> [i \in Layers |-> NoInc]]
  /\ jac = FALSE
  /\ K = [e \in cfg.elems |-> ZeroBlocks]

Init == InitWith(MainConfigs)
InitFrames == InitWith(FrameConfigs)

(***************************************************************************)
(* The constructor: the two configuration checks.  _Ay and _Az are read at *)
(* the indices 0 and 1.                                                    *)
(***************************************************************************)
DofCountMismatch == cfg.ndisp # cfg.nrot

AsymmetricLargeStrain ==
  /\ cfg.large_strain
  /\ RGt(cfg.Ay, R0) \/ RGt(cfg.Ay1, R0) \/ RGt(cfg.Az, R0) \/ RGt(cfg.Az1, R0)

Construct ==
  /\ pc = "construct"
  /\ pc' = IF DofCountMismatch \/ AsymmetricLargeStrain THEN "error" ELSE "setup"
  /\ UNCHANGED <<cfg, olc, inp, grad, cur, old, prop, elem, qp, loc, step, status,
                 inited, yielded, accepted, jac, K>>

(***************************************************************************)
(* initQpStatefulProperties                                                *)
(***************************************************************************)
Cross(x, y) ==
  << x[2] * y[3] - x[3] * y[2], x[3] * y[1] - x[1] * y[3], x[1] * y[2] - x[2] * y[1] >>

(* the local frame of element e: rows x, y, z = x cross y *)
LocalFrame(e) ==
  << VOfInt(cfg.axis[e]), VOfInt(cfg.y_orientation),
     VOfInt(Cross(cfg.axis[e], cfg.y_orientation)) >>

(* |x . y| > 1e-4 for unit vectors with integer components *)
NotPerpendicular(e) ==
  LET x == cfg.axis[e]
      y == cfg.y_orientation
  IN  IAbs(x[1] * y[1] + x[2] * y[2] + x[3] * y[3]) # 0

(* The host initializes the stateful properties of every quadrature point  *)
(* of element e and takes them as the first previous-step snapshot.        *)
InitStatefulProperties(e) ==
  /\ pc = "setup"
  /\ e \notin inited
  /\ cur' = [cur EXCEPT ![e] = [q \in Qps |-> InitStateful]]
  /\ old' = [old EXCEPT ![e] = [q \in Qps |-> InitStateful]]
  /\ IF NotPerpendicular(e)
       THEN /\ pc' = "error"
            /\ UNCHANGED <<olc, prop, inited, jac, K>>
       ELSE /\ olc' = LocalFrame(e)
            /\ prop' = [prop EXCEPT ![e] =
                          [q \in Qps |-> [prop[e][q] EXCEPT !.total_rotation = LocalFrame(e)]]]
            /\ inited' = inited \cup {e}
            /\ pc' = IF inited' = cfg.elems THEN "ready" ELSE "setup"
  /\ UNCHANGED <<cfg, inp, grad, elem, qp, loc, step, status, yielded, accepted, jac, K>>

(***************************************************************************)
(* computeProperties, up to the loop over the quadrature points            *)
(***************************************************************************)
computeRotation == olc

ComputePropertiesBegin(e, in, computing_jacobian) ==
  /\ pc \in {"ready", "done", "failed"}
  /\ elem' = e
  /\ inp' = in
  /\ jac' = computing_jacobian
  /\ prop' = [prop EXCEPT ![e][1].original_length = RI(cfg.length[e]),
                          ![e][1].total_rotation = computeRotation,
                          ![e][1].initial_rotation = olc]
  /\ qp' = 1
  /\ status' = [status EXCEPT ![e] = "running"]
  /\ accepted' = [q \in Qps |-> [i \in Layers |-> NoInc]]
  /\ loc' = InitLoc
  /\ pc' = "qpstrain"
  /\ UNCHANGED <<cfg, olc, grad, cur, old, step, inited, yielded, K>>

(***************************************************************************)
(* computeQpStrain, first part: local gradients, curvature, and the entry  *)
(* of computeQpStress                                                      *)
(***************************************************************************)
(* mutant: the depth is divided by the number of layer interfaces *)
ThickBetweenInterfaces == RDiv(cfg.depth, RI(cfg.nlayers + 1))

Thick == RDiv(cfg.depth, RI(cfg.nlayers))

(* mutant: the layers are stacked upward from the reference axis *)
ZStartAtAxis == R0

(* zmidl before the layer loop: the bottom fibre *)
ZStart == RMul(RNeg(RHalf), cfg.depth)
ZHalfStep(z, thick) == RAdd(z, RDiv(thick, RI(2)))

(* mutant: the layers are driven by the axial displacement gradient *)
TotalStretchAxial(g) == g.grad_disp_0_local_t[1]

(* _total_stretch[_qp], the strain increment of computeQpStress *)
TotalStretch(g) == g.grad_rot_0_local_t[3]

QpStrainBegin ==
  /\ pc = "qpstrain"
  /\ LET L == prop[elem][1].original_length
         R == prop[elem][1].total_rotation
         grad_disp_0 == VScale(RDiv(R1, L), VSub(VOfInt(inp.disp1), VOfInt(inp.disp0)))
         grad_rot_0 == VScale(RDiv(R1, L), VSub(VOfInt(inp.rot1), VOfInt(inp.rot0)))
         avg_rot == VScale(RHalf, VAdd(VOfInt(inp.rot0), VOfInt(inp.rot1)))
         g == [grad_disp_0_local_t |-> MVec(R, grad_disp_0),
               grad_rot_0_local_t |-> MVec(R, grad_rot_0),
               avg_rot_local_t |-> MVec(R, avg_rot)]
     IN  /\ grad' = g
         /\ cur' = [cur EXCEPT ![elem][qp].total_stretch = TotalStretch(g)]
         /\ loc' = [InitLoc EXCEPT !.strain_increment = TotalStretch(g),
                                   !.zmidl = ZStart, !.thick = Thick]
  /\ pc' = "layer"
  /\ UNCHANGED <<cfg, olc, inp, old, prop, elem, qp, step, status, inited, yielded, accepted, jac, K>>

(***************************************************************************)
(* computeQpStress: one layer                                              *)
(***************************************************************************)
TrialStress(stress_old, flexure, strain_increment, zmidl) ==
  RAdd(stress_old, RMul(RMul(flexure, strain_increment), zmidl))

(* mutant: the yield stress is left out of the yield condition *)
YieldConditionNoYieldStress(trial_stress, hardening, yield_stress) ==
  RSub(RAbs(trial_stress), hardening)

YieldCondition(trial_stress, hardening, yield_stress) ==
  RSub(RSub(RAbs(trial_stress), hardening), yield_stress)

Residual(trial_stress, hardening, yield_stress, flexure, dEp) ==
  RSub(RSub(RSub(RAbs(trial_stress), hardening), yield_stress), RMul(flexure, dEp))

ReferenceResidual(trial_stress, flexure, dEp) ==
  RSub(RAbs(trial_stress), RMul(flexure, dEp))

(* mutant: the absolute test is never applied *)
AbsTestMetAlways(residual) == TRUE

AbsTestMet(residual) == RLe(RAbs(residual), cfg.absolute_tolerance)

(* |residual / reference_residual| <= relative_tolerance, cross-multiplied. *)
(* With reference_residual = 0 the double quotient is inf (test not met)    *)
(* for residual # 0 and NaN (comparison false, test met) for residual = 0,  *)
(* which is what the cross-multiplied form gives.                           *)
RelTestMet(residual, reference_residual) ==
  RLe(RAbs(residual), RMul(cfg.relative_tolerance, RAbs(reference_residual)))

(* mutant: the loop goes on only while both tests are unmet *)
LoopCondBothUnmet(residual, reference_residual) ==
  ~AbsTestMet(residual) /\ ~RelTestMet(residual, reference_residual)

(* the condition of the while loop *)
LoopCond(residual, reference_residual) ==
  ~AbsTestMet(residual) \/ ~RelTestMet(residual, reference_residual)

(* mutant: the plastic strain is not reset from the previous-step snapshot *)
PlasticStrainStartStale(o, i) == cur[elem][qp].plastic_strain[i]

(* the values the layer's hardening variable and plastic strain start from *)
HardeningStart(o, i) == o.hardening_variable[i]
PlasticStrainStart(o, i) == o.plastic_strain[i]

LayerBegin ==
  /\ pc = "layer"
  /\ LET i == loc.i + 1
         z == ZHalfStep(loc.zmidl, loc.thick)
         o == old[elem][qp]
         trial == TrialStress(o.direct_stress[i], cfg.material_flexure,
                              loc.strain_increment, z)
         yc == YieldCondition(trial, HardeningStart(o, i), cfg.yield_stress)
         plastic == RGt(yc, R0)
     IN  /\ cur' = [cur EXCEPT ![elem][qp].hardening_variable[i] = HardeningStart(o, i),
                               ![elem][qp].plastic_strain[i] = PlasticStrainStart(o, i)]
         /\ loc' = [loc EXCEPT
                      !.zmidl = z, !.trial_stress = trial, !.yield_condition = yc,
                      !.iteration = 0, !.plastic_strain_increment = R0,
                      !.elastic_strain_increment = RMul(loc.strain_increment, z),
                      !.residual = IF plastic
                                     THEN Residual(trial, HardeningStart(o, i),
                                                   cfg.yield_stress, cfg.material_flexure, R0)
                                     ELSE R0,
                      !.reference_residual = IF plastic
                                     THEN ReferenceResidual(trial, cfg.material_flexure, R0)
                                     ELSE R0]
         /\ yielded' = (yielded \/ plastic)
         /\ pc' = IF plastic THEN "newton" ELSE "layerfin"
  /\ UNCHANGED <<cfg, olc, inp, grad, old, prop, elem, qp, step, status, inited, accepted, jac, K>>

(* _hardening_function->value and ->timeDerivative *)
FunctionValue(f, x) ==
  IF RLe(x, f.xb) THEN RAdd(f.f0, RMul(f.s1, x))
  ELSE RAdd(RAdd(f.f0, RMul(f.s1, f.xb)), RMul(f.s2, RSub(x, f.xb)))

FunctionDerivative(f, x) == IF RLe(x, f.xb) THEN f.s1 ELSE f.s2

(* mutant: the hardening value does not follow the iterate *)
computeHardeningValueAtZero(scalar, j) ==
  IF cfg.hardening_function.kind # "none"
    THEN RSub(FunctionValue(cfg.hardening_function,
                            RAbs(old[elem][qp].plastic_strain[j + 1])),
              cfg.yield_stress)
    ELSE old[elem][qp].hardening_variable[j + 1]

(* j is the 0-based layer index of the code *)
computeHardeningValue(scalar, j) ==
  IF cfg.hardening_function.kind # "none"
    THEN RSub(FunctionValue(cfg.hardening_function,
                            RAdd(RAbs(old[elem][qp].plastic_strain[j + 1]), scalar)),
              cfg.yield_stress)
    ELSE RAdd(old[elem][qp].hardening_variable[j + 1],
              RMul(cfg.hardening_constant, scalar))

(* mutant: the derivative is re-evaluated at the iterate *)
computeHardeningDerivativeAtIterate(scalar, j) ==
  IF cfg.hardening_function.kind # "none"
    THEN FunctionDerivative(cfg.hardening_function,
                            RAdd(RAbs(old[elem][qp].plastic_strain[j + 1]), scalar))
    ELSE cfg.hardening_constant

(* mutant: the hardening slope is left out of the Newton step *)
computeHardeningDerivativeZero(scalar, j) == R0

computeHardeningDerivative(scalar, j) ==
  IF cfg.hardening_function.kind # "none"
    THEN FunctionDerivative(cfg.hardening_function,
                            RAbs(old[elem][qp].plastic_strain[j + 1]))
    ELSE cfg.hardening_constant

NewtonScalar(trial_stress, hardening, yield_stress, flexure, dEp, hardening_slope) ==
  RDiv(Residual(trial_stress, hardening, yield_stress, flexure, dEp),
       RAdd(flexure, hardening_slope))

(* mutant: the cap is tested one iteration late *)
CapExceededLate(iteration) == iteration > max_its + 1

CapExceeded(iteration) == iteration > max_its

(* one pass through the body of the while loop *)
NewtonIter ==
  /\ pc = "newton"
  /\ LoopCond(loc.residual, loc.reference_residual)
  /\ LET hv == computeHardeningValue(loc.plastic_strain_increment, loc.i)
         hardening_slope == computeHardeningDerivative(loc.plastic_strain_increment, loc.i)
         scalar == NewtonScalar(loc.trial_stress, hv, cfg.yield_stress,
                                cfg.material_flexure, loc.plastic_strain_increment,
                                hardening_slope)
         dEp == RAdd(loc.plastic_strain_increment, scalar)
         iteration == loc.iteration + 1
     IN  /\ cur' = [cur EXCEPT ![elem][qp].hardening_variable[loc.i + 1] = hv]
         /\ loc' = [loc EXCEPT
                      !.plastic_strain_increment = dEp,
                      !.residual = Residual(loc.trial_stress, hv, cfg.yield_stress,
                                            cfg.material_flexure, dEp),
                      !.reference_residual =
                          ReferenceResidual(loc.trial_stress, cfg.material_flexure, dEp),
                      !.iteration = iteration]
         /\ IF CapExceeded(iteration)
              THEN /\ pc' = "failed"
                   /\ status' = [status EXCEPT ![elem] = "failed"]
              ELSE /\ pc' = "newton"
                   /\ UNCHANGED status
  /\ UNCHANGED <<cfg, olc, inp, grad, old, prop, elem, qp, step, inited, yielded, accepted, jac, K>>

(* MathUtils::sign *)
Sign(x) == IF RLe(R0, x) THEN R1 ELSE RNeg(R1)

(* mutant: the sign of the trial stress is not applied *)
SignedIncrementUnsigned(dEp, trial_stress) == dEp

SignedIncrement(dEp, trial_stress) == RMul(dEp, Sign(trial_stress))

(* the loop is left; lines after it inside the plastic branch *)
NewtonConverged ==
  /\ pc = "newton"
  /\ ~LoopCond(loc.residual, loc.reference_residual)
  /\ LET i == loc.i + 1
         signed == SignedIncrement(loc.plastic_strain_increment, loc.trial_stress)
     IN  /\ cur' = [cur EXCEPT ![elem][qp].plastic_strain[i] = RAdd(@, signed)]
         /\ loc' = [loc EXCEPT
                      !.plastic_strain_increment = signed,
                      !.elastic_strain_increment =
                          RSub(RMul(loc.strain_increment, loc.zmidl), signed)]
         /\ accepted' = [accepted EXCEPT ![qp][i] =
                            [left |-> TRUE, dEp |-> loc.plastic_strain_increment,
                             residual |-> loc.residual,
                             reference_residual |-> loc.reference_residual,
                             iteration |-> loc.iteration]]
  /\ pc' = "layerfin"
  /\ UNCHANGED <<cfg, olc, inp, grad, old, prop, elem, qp, step, status, inited, yielded, jac, K>>

(* mutant: the new stress is built from the increment alone *)
NewDirectStressIncrementOnly(stress_old, elastic_strain_increment, flexure) ==
  RMul(elastic_strain_increment, flexure)

NewDirectStress(stress_old, elastic_strain_increment, flexure) ==
  RAdd(stress_old, RMul(elastic_strain_increment, flexure))

(* mutant: the moment is overwritten instead of accumulated *)
MomentAddOverwrite(moment, stress, width, zmidl, thick) ==
  RMul(RMul(RMul(stress, width), zmidl), thick)

MomentAdd(moment, stress, width, zmidl, thick) ==
  RAdd(moment, RMul(RMul(RMul(stress, width), zmidl), thick))

(* mutant: the layer loop is left after its first pass *)
MoreLayersNever(i) == FALSE

(* the condition of the layer loop, after the increment of the 0-based i *)
MoreLayers(i) == i + 1 < cfg.nlayers

(* mutant: the new direct stress is also stored into the previous-step slot *)
LayerFinishIntoSnapshot ==
  /\ pc = "layerfin"
  /\ LET i == loc.i + 1
         stress == NewDirectStress(old[elem][qp].direct_stress[i],
                                   loc.elastic_strain_increment, cfg.material_flexure)
         moment == MomentAdd(loc.moment, stress, cfg.width, loc.zmidl, loc.thick)
     IN  /\ cur' = [cur EXCEPT ![elem][qp].direct_stress[i] = stress,
                               ![elem][qp].stres = moment]
         /\ old' = [old EXCEPT ![elem][qp].direct_stress[i] = stress]
         /\ loc' = [loc EXCEPT !.moment = moment,
                               !.zmidl = ZHalfStep(loc.zmidl, loc.thick),
                               !.i = loc.i + 1]
         /\ pc' = IF MoreLayers(loc.i) THEN "layer" ELSE "qpfinish"
  /\ UNCHANGED <<cfg, olc, inp, grad, prop, elem, qp, step, status, inited, yielded,
                 accepted, jac, K>>

(* new direct stress, moment, and the step of the layer loop *)
LayerFinish ==
  /\ pc = "layerfin"
  /\ LET i == loc.i + 1
         stress == NewDirectStress(old[elem][qp].direct_stress[i],
                                   loc.elastic_strain_increment, cfg.material_flexure)
         moment == MomentAdd(loc.moment, stress, cfg.width, loc.zmidl, loc.thick)
     IN  /\ cur' = [cur EXCEPT ![elem][qp].direct_stress[i] = stress,
                               ![elem][qp].stres = moment]
         /\ loc' = [loc EXCEPT !.moment = moment,
                               !.zmidl = ZHalfStep(loc.zmidl, loc.thick),
                               !.i = loc.i + 1]
         /\ pc' = IF MoreLayers(loc.i) THEN "layer" ELSE "qpfinish"
  /\ UNCHANGED <<cfg, olc, inp, grad, old, prop, elem, qp, step, status, inited, yielded,
                 accepted, jac, K>>

(***************************************************************************)
(* computeQpStrain, after computeQpStress has returned: strain increments  *)
(* integrated over the section, the total strain accumulators and the     *)
(* removal of the eigenstrain increment; the                               *)
(* effective stiffness, a square root that nothing here reads, is not      *)
(* modelled.  After the last quadrature point the call returns, or goes on *)
(* to computeStiffnessMatrix when the host is computing the Jacobian.      *)
(***************************************************************************)
RECURSIVE RSum(_)
RSum(ts) == IF ts = <<>> THEN R0 ELSE RAdd(Head(ts), RSum(Tail(ts)))
RProd(a, b, c) == RMul(RMul(a, b), c)
RSq(a) == RMul(a, a)

(* _area[_qp], _Ay[_qp], _Az[_qp], _Iy[_qp], _Iz[_qp] and Ix of computeQpStrain *)
AreaQp == IF qp = 1 THEN cfg.area ELSE cfg.area1
AyQp == IF qp = 1 THEN cfg.Ay ELSE cfg.Ay1
AzQp == IF qp = 1 THEN cfg.Az ELSE cfg.Az1
IyQp == IF qp = 1 THEN cfg.Iy ELSE cfg.Iy1
IzQp == IF qp = 1 THEN cfg.Iz ELSE cfg.Iz1
SectionIx ==
  IF cfg.has_Ix THEN (IF qp = 1 THEN cfg.Ix ELSE cfg.Ix1) ELSE RAdd(IyQp, IzQp)

SmallDispStrain(gd, gr, ar) ==
  << RSum(<<RMul(gd[1], AreaQp), RNeg(RMul(gr[3], AyQp)), RMul(gr[2], AzQp)>>),
     RSum(<<RNeg(RMul(ar[3], AreaQp)), RMul(gd[2], AreaQp), RNeg(RMul(gr[1], AzQp))>>),
     RSum(<<RMul(ar[2], AreaQp), RMul(gd[3], AreaQp), RMul(gr[1], AyQp)>>) >>

SmallRotStrain(gd, gr, ar) ==
  << RSum(<<RMul(ar[2], AyQp), RMul(gd[3], AyQp), RMul(gr[1], SectionIx),
            RMul(ar[3], AzQp), RNeg(RMul(gd[2], AzQp))>>),
     RSum(<<RMul(gd[1], AzQp), RNeg(RMul(gr[3], R0)), RMul(gr[2], IzQp)>>),
     RSum(<<RNeg(RMul(gd[1], AyQp)), RMul(gr[3], IyQp), RNeg(RMul(gr[2], R0))>>) >>

LargeDispStrain(gd, gr, ar) ==
  << RMul(RHalf, RSum(<<RMul(RSum(<<RSq(gd[1]), RSq(gd[2]), RSq(gd[3])>>), AreaQp),
                        RMul(RSq(gr[3]), IyQp), RMul(RSq(gr[2]), IzQp),
                        RMul(RSq(gr[1]), SectionIx)>>)),
     RMul(RAdd(RNeg(RMul(ar[3], gd[1])), RMul(ar[1], gd[3])), AreaQp),
     RMul(RSub(RMul(ar[2], gd[1]), RMul(ar[1], gd[2])), AreaQp) >>

LargeRotStrain(gd, gr, ar) ==
  << RAdd(RNeg(RProd(ar[2], gr[3], IyQp)), RProd(ar[3], gr[2], IzQp)),
     RMul(RSub(RMul(gd[1], gr[2]), RMul(gd[2], gr[1])), IzQp),
     RNeg(RMul(RSub(RMul(gd[3], gr[1]), RMul(gd[1], gr[3])), IyQp)) >>

MechDispStrain(gd, gr, ar) ==
  IF cfg.large_strain
    THEN VAdd(SmallDispStrain(gd, gr, ar), LargeDispStrain(gd, gr, ar))
    ELSE SmallDispStrain(gd, gr, ar)

MechRotStrain(gd, gr, ar) ==
  IF cfg.large_strain
    THEN VAdd(SmallRotStrain(gd, gr, ar), LargeRotStrain(gd, gr, ar))
    ELSE SmallRotStrain(gd, gr, ar)

TotalDispStrain(R, mech_disp, o) == VAdd(MVec(MTranspose(R), mech_disp), o.total_disp_strain)
TotalRotStrain(R, mech_rot, o) == VAdd(MVec(MTranspose(R), mech_rot), o.total_disp_strain)

(* The eigenstrain increment (eigenstrain minus its previous-step value,   *)
(* summed over the eigenstrains) is removed from the mechanical strain     *)
(* increments after the total strains have been written.                   *)
RemoveDispEigenstrain(R, mech_disp) ==
  VSub(mech_disp, VScale(AreaQp, MVec(R, VOfInt(cfg.disp_eigenstrain_increment))))
RemoveRotEigenstrain(R, mech_rot) ==
  VSub(mech_rot, MVec(R, VOfInt(cfg.rot_eigenstrain_increment)))

(* mutant: the stiffness matrix is assembled in every call *)
currentlyComputingJacobianAlways == TRUE

(* _fe_problem.currentlyComputingJacobian() *)
currentlyComputingJacobian == jac

QpStrainFinish ==
  /\ pc = "qpfinish"
  /\ LET gd == grad.grad_disp_0_local_t
         gr == grad.grad_rot_0_local_t
         ar == grad.avg_rot_local_t
         R == prop[elem][1].total_rotation
         mech_disp == MechDispStrain(gd, gr, ar)
         mech_rot == MechRotStrain(gd, gr, ar)
     IN  /\ prop' = [prop EXCEPT
                       ![elem][qp].mech_disp_strain_increment =
                           RemoveDispEigenstrain(R, mech_disp),
                       ![elem][qp].mech_rot_strain_increment =
                           RemoveRotEigenstrain(R, mech_rot)]
         /\ cur' = [cur EXCEPT
                      ![elem][qp].total_disp_strain =
                          TotalDispStrain(R, mech_disp, old[elem][qp]),
                      ![elem][qp].total_rot_strain =
                          TotalRotStrain(R, mech_rot, old[elem][qp])]
  /\ IF qp < cfg.nqp
       THEN /\ qp' = qp + 1
            /\ pc' = "qpstrain"
            /\ UNCHANGED status
       ELSE /\ qp' = qp
            /\ pc' = IF currentlyComputingJacobian THEN "stiffness" ELSE "done"
            /\ status' = IF currentlyComputingJacobian
                            THEN status
                            ELSE [status EXCEPT ![elem] = "ok"]
  /\ UNCHANGED <<cfg, olc, inp, grad, old, elem, loc, step, inited, yielded, accepted, jac, K>>

(***************************************************************************)
(* computeStiffnessMatrix.  Index (i, j) of a RankTwoTensor of the code is *)
(* entry [i + 1][j + 1] here; a RankTwoTensor is zero where the code       *)
(* assigns nothing.                                                        *)
(***************************************************************************)
RECURSIVE RProduct(_)
RProduct(ts) == IF ts = <<>> THEN R1 ELSE RMul(Head(ts), RProduct(Tail(ts)))

MAdd(a, b) == [r \in 1..3 |-> [c \in 1..3 |-> RAdd(a[r][c], b[r][c])]]
MScale(k, m) == [r \in 1..3 |-> [c \in 1..3 |-> RMul(k, m[r][c])]]
Diag(a, b, c) == << <<a, R0, R0>>, <<R0, b, R0>>, <<R0, R0, c>> >>

youngs_modulus == cfg.material_stiffness[1]
shear_modulus == cfg.material_stiffness[2]

A_avg == RDiv(RAdd(cfg.area, cfg.area1), RI(2))
Iy_avg == RDiv(RAdd(cfg.Iy, cfg.Iy1), RI(2))
Iz_avg == RDiv(RAdd(cfg.Iz, cfg.Iz1), RI(2))
Ix_avg ==
  IF cfg.has_Ix THEN RDiv(RAdd(cfg.Ix, cfg.Ix1), RI(2)) ELSE RAdd(Iy_avg, Iz_avg)

(* _original_length[0] and _total_rotation[0] of the current element *)
Length0 == prop[elem][1].original_length
Rotation0 == prop[elem][1].total_rotation

(* _total_rotation[0].transpose() * m * _total_rotation[0] *)
ToGlobal(m) == MMul(MMul(MTranspose(Rotation0), m), Rotation0)

K11_local ==
  Diag(RDiv(RMul(youngs_modulus, A_avg), Length0),
       RDiv(RMul(shear_modulus, A_avg), Length0),
       RDiv(RMul(shear_modulus, A_avg), Length0))

K21_local ==
  << VZero,
     <<R0, R0, RNeg(RProduct(<<shear_modulus, A_avg, RHalf>>))>>,
     <<R0, RProduct(<<shear_modulus, A_avg, RHalf>>), R0>> >>

(* shear_modulus * A_avg * _original_length[0] / 4.0 *)
ShearTerm == RDiv(RProduct(<<shear_modulus, A_avg, Length0>>), RI(4))

(* mutant: Iy and Iz are exchanged in the bending entries *)
K22_localSwapped ==
  Diag(RDiv(RMul(shear_modulus, Ix_avg), Length0),
       RAdd(RDiv(RMul(youngs_modulus, Iy_avg), Length0), ShearTerm),
       RAdd(RDiv(RMul(youngs_modulus, Iz_avg), Length0), ShearTerm))

K22_local ==
  Diag(RDiv(RMul(shear_modulus, Ix_avg), Length0),
       RAdd(RDiv(RMul(youngs_modulus, Iz_avg), Length0), ShearTerm),
       RAdd(RDiv(RMul(youngs_modulus, Iy_avg), Length0), ShearTerm))

(* mutant: the shear terms are not added back on the bending entries *)
K22_local_crossNoShear == MNeg(K22_local)

K22_local_cross ==
  LET n == MNeg(K22_local)
  IN  [n EXCEPT ![2][2] = RAdd(@, RMul(RI(2), ShearTerm)),
                ![3][3] = RAdd(@, RMul(RI(2), ShearTerm))]

(* the five blocks of the small-strain part, in the global frame *)
SmallStrainBlocks ==
  [ K11 |-> ToGlobal(K11_local),
    K21 |-> ToGlobal(K21_local),
    K22 |-> ToGlobal(K22_local),
    K22_cross |-> ToGlobal(K22_local_cross),
    K21_cross |-> MNeg(ToGlobal(K21_local)) ]

(* the large-strain part: a coefficient times a product of factors *)
Term(c, factors) == RMul(c, RProduct(factors))

(* 1.0 / 4.0 / Utility::pow<2>(_original_length[0]) *)
QuarterOverLengthSq == RDiv(Rat(1, 4), RSq(Length0))

(* 1.0 / 8.0 / _original_length[0] *)
EighthOverLength == RDiv(Rat(1, 8), Length0)

k1_large_11 ==
  LET d0 == grad.grad_disp_0_local_t[1]
      d1 == grad.grad_disp_0_local_t[2]
      d2 == grad.grad_disp_0_local_t[3]
      r0 == grad.grad_rot_0_local_t[1]
      r1 == grad.grad_rot_0_local_t[2]
      r2 == grad.grad_rot_0_local_t[3]
      k00 == RSum(<< RSq(d0), Term(Rat(3, 2), <<r2, r2, Iy_avg>>),
                     Term(Rat(3, 2), <<r1, r1, Iz_avg>>), Term(RHalf, <<d1, d1>>),
                     Term(RHalf, <<d2, d2>>), Term(RHalf, <<r0, r0, Ix_avg>>) >>)
      k10 == RSub(Term(RHalf, <<d0, d1>>), Term(Rat(1, 3), <<r0, r1, Iz_avg>>))
      k20 == RSub(Term(RHalf, <<d0, d2>>), Term(Rat(1, 3), <<r0, r2, Iy_avg>>))
      k11 == RSum(<< RSq(d1), Term(Rat(3, 2), <<r0, r0, Iz_avg>>),
                     Term(RHalf, <<d0, d0>>), Term(RHalf, <<d2, d2>>),
                     Term(RHalf, <<r2, r2, Iy_avg>>), Term(RHalf, <<r1, r1, Iz_avg>>),
                     Term(RHalf, <<r0, r0, Iy_avg>>) >>)
      k21 == Term(RHalf, <<d1, d2>>)
      k22 == RSum(<< RSq(d2), Term(Rat(3, 2), <<r0, r0, Iy_avg>>),
                     Term(RHalf, <<d0, d0>>), Term(RHalf, <<d1, d1>>),
                     Term(RHalf, <<r0, r0, Iz_avg>>), Term(RHalf, <<r2, r2, Iy_avg>>),
                     Term(RHalf, <<r2, r2, Iz_avg>>) >>)
  IN  MScale(QuarterOverLengthSq,
             << <<k00, k10, k20>>, <<k10, k11, k21>>, <<k20, k21, k22>> >>)

k1_large_21 ==
  LET d0 == grad.grad_disp_0_local_t[1]
      d1 == grad.grad_disp_0_local_t[2]
      d2 == grad.grad_disp_0_local_t[3]
      r0 == grad.grad_rot_0_local_t[1]
      r1 == grad.grad_rot_0_local_t[2]
      r2 == grad.grad_rot_0_local_t[3]
      k00 == RSub(RSub(Term(RHalf, <<d0, r0, Ix_avg>>),
                       Term(Rat(1, 3), <<d1, r1, Iz_avg>>)),
                  Term(Rat(1, 3), <<d2, r2>>))
      k10 == RSub(Term(Rat(3, 2), <<d0, r1, Iz_avg>>), Term(Rat(1, 3), <<d1, r0, Iz_avg>>))
      k20 == RSub(Term(Rat(3, 2), <<d0, r2, Iy_avg>>), Term(Rat(1, 3), <<d2, r0, Iy_avg>>))
      k11 == RSub(Term(RHalf, <<d1, r1, Iz_avg>>), Term(Rat(1, 3), <<d0, r0, Iz_avg>>))
      k21 == Term(RHalf, <<d1, r2, Iy_avg>>)
      k22 == RSub(Term(RHalf, <<d2, r2, Iy_avg>>), Term(Rat(1, 3), <<d0, r0, Iy_avg>>))
  IN  MScale(QuarterOverLengthSq,
             << <<k00, k10, k20>>, <<k10, k11, k21>>, <<k20, k21, k22>> >>)

k1_large_22 ==
  LET d0 == grad.grad_disp_0_local_t[1]
      d1 == grad.grad_disp_0_local_t[2]
      d2 == grad.grad_disp_0_local_t[3]
      r0 == grad.grad_rot_0_local_t[1]
      r1 == grad.grad_rot_0_local_t[2]
      r2 == grad.grad_rot_0_local_t[3]
      k00 == RSum(<< Term(R1, <<r0, r0, Ix_avg, Ix_avg>>),
                     Term(Rat(3, 2), <<d1, d1, Iz_avg>>),
                     Term(Rat(3, 2), <<d2, d2, Iy_avg>>),
                     Term(RHalf, <<d0, d0, Ix_avg>>), Term(RHalf, <<d2, d2, Iz_avg>>),
                     Term(RHalf, <<d1, d1, Iy_avg>>),
                     Term(RHalf, <<r2, r2, Iy_avg, Ix_avg>>),
                     Term(RHalf, <<r1, r1, Iz_avg, Ix_avg>>) >>)
      k10 == RSub(Term(RHalf, <<r0, r1, Iz_avg, Ix_avg>>),
                  Term(Rat(1, 3), <<d0, d1, Iz_avg>>))
      k20 == RSub(Term(RHalf, <<r0, r2, Iy_avg, Ix_avg>>),
                  Term(Rat(1, 3), <<d0, d2, Iy_avg>>))
      k11 == RSum(<< Term(R1, <<r1, r1, Iz_avg, Iz_avg>>),
                     Term(Rat(3, 2), <<d0, d0, Iz_avg>>),
                     Term(Rat(3, 2), <<r2, r2, Iy_avg, Iz_avg>>),
                     Term(RHalf, <<d1, d1, Iz_avg>>), Term(RHalf, <<d2, d2, Iz_avg>>),
                     Term(RHalf, <<r0, r0, Iz_avg, Ix_avg>>) >>)
      k21 == Term(Rat(3, 2), <<r1, r2, Iy_avg, Iz_avg>>)
      k22 == RSum(<< Term(R1, <<r2, r2, Iy_avg, Iy_avg>>),
                     Term(Rat(3, 2), <<d0, d0, Iy_avg>>),
                     Term(Rat(3, 2), <<r1, r1, Iy_avg, Iz_avg>>),
                     Term(RHalf, <<d1, d1, Iy_avg>>), Term(RHalf, <<d2, d2, Iy_avg>>),
                     Term(RHalf, <<r0, r0, Iz_avg, Ix_avg>>) >>)
  IN  MScale(QuarterOverLengthSq,
             << <<k00, k10, k20>>, <<k10, k11, k21>>, <<k20, k21, k22>> >>)

k2_large_11 ==
  LET a0 == grad.avg_rot_local_t[1]
      a1 == grad.avg_rot_local_t[2]
      a2 == grad.avg_rot_local_t[3]
      k00 == RAdd(Term(Rat(1, 4), <<a2, a2>>), Term(Rat(1, 4), <<a1, a1>>))
      k10 == RNeg(Term(Rat(1, 6), <<a0, a1>>))
      k20 == RNeg(Term(Rat(1, 6), <<a0, a2>>))
      k11 == Term(Rat(1, 4), <<a0>>)
      k22 == Term(Rat(1, 4), <<a0, a0>>)
  IN  MScale(QuarterOverLengthSq,
             << <<k00, k10, k20>>, <<k10, k11, R0>>, <<k20, R0, k22>> >>)

k2_large_22 ==
  LET a0 == grad.avg_rot_local_t[1]
      a1 == grad.avg_rot_local_t[2]
      a2 == grad.avg_rot_local_t[3]
      k00 == Term(Rat(1, 4), <<a0, a0, Ix_avg>>)
      k10 == Term(Rat(1, 6), <<a0, a1, Iz_avg>>)
      k20 == Term(Rat(1, 6), <<a0, a2, Iy_avg>>)
      k11 == RAdd(Term(Rat(1, 4), <<a2, a2, Iz_avg>>), Term(Rat(1, 4), <<a1, a1, Iz_avg>>))
      k22 == RAdd(Term(Rat(1, 4), <<a2, a2, Iy_avg>>), Term(Rat(1, 4), <<a1, a1, Iy_avg>>))
  IN  MScale(QuarterOverLengthSq,
             << <<k00, k10, k20>>, <<k10, k11, R0>>, <<k20, R0, k22>> >>)

k4_large_22 ==
  LET r0 == grad.grad_rot_0_local_t[1]
      r1 == grad.grad_rot_0_local_t[2]
      r2 == grad.grad_rot_0_local_t[3]
      a0 == grad.avg_rot_local_t[1]
      a1 == grad.avg_rot_local_t[2]
      a2 == grad.avg_rot_local_t[3]
      k00 == RSum(<< Term(Rat(1, 4), <<r0, a0, Ix_avg>>),
                     Term(Rat(1, 6), <<r2, a2, Iy_avg>>),
                     Term(Rat(1, 6), <<r1, a1, Iz_avg>>) >>)
      k10 == Term(Rat(1, 6), <<r1, a0, Iz_avg>>)
      k20 == Term(Rat(1, 6), <<r2, a0, Iy_avg>>)
      k01 == Term(Rat(1, 6), <<r0, a1, Iz_avg>>)
      k11 == RAdd(Term(Rat(1, 4), <<r1, a1, Iz_avg>>), Term(Rat(1, 6), <<r0, a0, Iz_avg>>))
      k21 == Term(Rat(1, 4), <<r1, a2, Iz_avg>>)
      k02 == Term(Rat(1, 6), <<r0, a2, Iy_avg>>)
      k12 == Term(Rat(1, 4), <<r2, a1, Iy_avg>>)
      k22 == RAdd(Term(Rat(1, 4), <<r2, a2, Iy_avg>>), Term(Rat(1, 6), <<r0, a0, Iy_avg>>))
  IN  << <<k00, k01, k02>>, <<k10, k11, k12>>, <<k20, k21, k22>> >>

(* k3_large_22 after `k3_large_22 += 1/8/L * (k4_large_22 + transpose)`;   *)
(* entry (1, 1) is never assigned, entry (2, 2) is assigned twice          *)
k3_large_22 ==
  LET d0 == grad.grad_disp_0_local_t[1]
      d1 == grad.grad_disp_0_local_t[2]
      d2 == grad.grad_disp_0_local_t[3]
      r0 == grad.grad_rot_0_local_t[1]
      r1 == grad.grad_rot_0_local_t[2]
      r2 == grad.grad_rot_0_local_t[3]
      k00 == RSum(<< Term(Rat(1, 4), <<d2, d2>>), Term(Rat(1, 4), <<r0, Ix_avg>>),
                     Term(Rat(1, 4), <<d1, d1>>) >>)
      k10 == RAdd(RNeg(Term(Rat(1, 6), <<d0, d1>>)), Term(Rat(1, 6), <<r0, r1, Iz_avg>>))
      k20 == RAdd(RNeg(Term(Rat(1, 6), <<d0, d2>>)), Term(Rat(1, 6), <<r0, r2, Iy_avg>>))
      k22 == RSum(<< Term(Rat(1, 4), <<d0, d0>>), Term(Rat(1, 4), <<r2, Iy_avg>>),
                     Term(Rat(1, 4), <<r1, Iz_avg>>) >>)
      first == MScale(Rat(1, 16), << <<k00, k10, k20>>, <<k10, R0, R0>>, <<k20, R0, k22>> >>)
  IN  MAdd(first, MScale(EighthOverLength, MAdd(k4_large_22, MTranspose(k4_large_22))))

k3_large_21 ==
  LET d0 == grad.grad_disp_0_local_t[1]
      d1 == grad.grad_disp_0_local_t[2]
      d2 == grad.grad_disp_0_local_t[3]
      a0 == grad.avg_rot_local_t[1]
      a1 == grad.avg_rot_local_t[2]
      a2 == grad.avg_rot_local_t[3]
      k00 == RNeg(RMul(Rat(1, 6), RAdd(RMul(d2, a2), RMul(d1, a1))))
      k10 == RSub(Term(Rat(1, 4), <<d0, a1>>), Term(Rat(1, 6), <<d1, a0>>))
      k20 == RSub(Term(Rat(1, 4), <<d0, a2>>), Term(Rat(1, 6), <<d2, a0>>))
      k01 == RSub(Term(Rat(1, 4), <<d1, a0>>), Term(Rat(1, 6), <<d0, a1>>))
      k11 == RNeg(Term(Rat(1, 6), <<d0, a0>>))
      k02 == RSub(Term(Rat(1, 4), <<d2, a0>>), Term(Rat(1, 6), <<d0, a2>>))
      k22 == RNeg(Term(Rat(1, 6), <<d0, a0>>))
  IN  MScale(EighthOverLength,
             << <<k00, k01, k02>>, <<k10, k11, R0>>, <<k20, R0, k22>> >>)

(* what the large-strain branch adds to the five blocks, in the global frame *)
LargeStrainBlocks ==
  [ K11 |-> ToGlobal(MAdd(k1_large_11, k2_large_11)),
    K22 |-> ToGlobal(MAdd(MAdd(k1_large_22, k2_large_22), k3_large_22)),
    K21 |-> ToGlobal(MAdd(k1_large_21, k3_large_21)),
    K21_cross |-> ToGlobal(MAdd(MNeg(k1_large_21), k3_large_21)),
    K22_cross |-> ToGlobal(MAdd(MAdd(MNeg(k1_large_22), MNeg(k2_large_22)), k3_large_22)) ]

AssembledBlocks ==
  IF cfg.large_strain
    THEN [b \in DOMAIN SmallStrainBlocks |->
            MAdd(SmallStrainBlocks[b], LargeStrainBlocks[b])]
    ELSE SmallStrainBlocks

computeStiffnessMatrix ==
  /\ pc = "stiffness"
  /\ K' = [K EXCEPT ![elem] = AssembledBlocks]
  /\ status' = [status EXCEPT ![elem] = "ok"]
  /\ pc' = "done"
  /\ UNCHANGED <<cfg, olc, inp, grad, cur, old, prop, elem, qp, loc, step, inited,
                 yielded, accepted, jac>>

(***************************************************************************)
(* The host accepts the time step: the current stateful properties become  *)
(* the previous-step snapshots of the next step.                           *)
(***************************************************************************)
AdvanceStepUpTo(n) ==
  /\ pc = "done"
  /\ \A e \in cfg.elems : status[e] = "ok"
  /\ step < n
  /\ old' = cur
  /\ step' = step + 1
  /\ status' = [e \in cfg.elems |-> "none"]
  /\ pc' = "ready"
  /\ UNCHANGED <<cfg, olc, inp, grad, cur, prop, elem, qp, loc, inited, yielded, accepted, jac, K>>

AdvanceStep == AdvanceStepUpTo(MaxSteps)

Next ==
  \/ Construct
  \/ \E e \in cfg.elems : InitStatefulProperties(e)
  \/ \E e \in cfg.elems, c \in Calls : ComputePropertiesBegin(e, c[1], c[2])
  \/ QpStrainBegin
  \/ LayerBegin
  \/ NewtonIter
  \/ NewtonConverged
  \/ LayerFinish
  \/ QpStrainFinish
  \/ computeStiffnessMatrix
  \/ AdvanceStep

NextFrames ==
  \/ Construct
  \/ \E e \in cfg.elems : InitStatefulProperties(e)
  \/ \E e \in cfg.elems, c \in FrameCalls : ComputePropertiesBegin(e, c[1], c[2])
  \/ QpStrainBegin
  \/ LayerBegin
  \/ NewtonIter
  \/ NewtonConverged
  \/ LayerFinish
  \/ QpStrainFinish
  \/ computeStiffnessMatrix
  \/ AdvanceStep

Spec == Init /\ [][Next]_vars
SpecFrames == InitFrames /\ [][NextFrames]_vars

(***************************************************************************)
(* Monotonic loading: linear hardening with slope 0, E/20 and E/2, and    *)
(* MonotonicSteps accepted steps.  The curvature increment is chosen in    *)
(* the first step and repeated in every later one (proportional loading at *)
(* one of three rates).  Only the residual is evaluated.                   *)
(***************************************************************************)
MonotonicConfigs ==
  { [BaseConfig EXCEPT !.nlayers = n, !.hardening_constant = h] :
      n \in 1..3, h \in {R0, Rat(1, 10), R1} }

MonotonicInputs ==
  { In(Z3, Z3, Z3, <<0, 0, k>>) : k \in 1..3 }

InitMonotonic == InitWith(MonotonicConfigs)

NextMonotonic ==
  \/ Construct
  \/ \E e \in cfg.elems : InitStatefulProperties(e)
  \/ \E e \in cfg.elems, in \in MonotonicInputs :
       (step = 0 \/ in = inp) /\ ComputePropertiesBegin(e, in, FALSE)
  \/ QpStrainBegin
  \/ LayerBegin
  \/ NewtonIter
  \/ NewtonConverged
  \/ LayerFinish
  \/ QpStrainFinish
  \/ AdvanceStepUpTo(MonotonicSteps)

SpecMonotonic == InitMonotonic /\ [][NextMonotonic]_vars

(***************************************************************************)
(* One step from the zero state of a rectangular section 0.1 x 0.2 with    *)
(* ten layers, modulus 2e5, yield stress 200 and hardening constant 1e3.   *)
(* The element has length 100, so that an end rotation of k about the      *)
(* local z axis is a curvature increment of k/100.                         *)
(***************************************************************************)
ScenarioConfig ==
  [BaseConfig EXCEPT !.nlayers = 10, !.width = Rat(1, 10), !.depth = Rat(1, 5),
                     !.material_flexure = RI(200000), !.yield_stress = RI(200),
                     !.hardening_constant = RI(1000),
                     !.length = [e \in {1} |-> 100]]

ScenarioInputs ==
  { In(Z3, Z3, Z3, <<0, 0, k>>) : k \in 0..2 }

InitScenario == InitWith({ScenarioConfig})

NextScenario ==
  \/ Construct
  \/ \E e \in cfg.elems : InitStatefulProperties(e)
  \/ \E e \in cfg.elems, in \in ScenarioInputs : ComputePropertiesBegin(e, in, FALSE)
  \/ QpStrainBegin
  \/ LayerBegin
  \/ NewtonIter
  \/ NewtonConverged
  \/ LayerFinish
  \/ QpStrainFinish

SpecScenario == InitScenario /\ [][NextScenario]_vars

(***************************************************************************)
(* Layer refinement: the same section with 1 to MaxRefinedLayers layers    *)
(* and yield stress 2, one step from the zero state.  The curvature        *)
(* increments 1 and -1 leave every layer elastic; the increment 2 makes    *)
(* the outer layers of the finer sections yield.                           *)
(***************************************************************************)
RefinementConfigs ==
  { [BaseConfig EXCEPT !.nlayers = n, !.yield_stress = RI(2),
                       !.hardening_constant = R1] : n \in 1..MaxRefinedLayers }

RefinementInputs ==
  { In(Z3, Z3, Z3, <<0, 0, k>>) : k \in {-1, 1, 2} }

InitRefinement == InitWith(RefinementConfigs)

NextRefinement ==
  \/ Construct
  \/ \E e \in cfg.elems : InitStatefulProperties(e)
  \/ \E e \in cfg.elems, in \in RefinementInputs : ComputePropertiesBegin(e, in, FALSE)
  \/ QpStrainBegin
  \/ LayerBegin
  \/ NewtonIter
  \/ NewtonConverged
  \/ LayerFinish
  \/ QpStrainFinish

SpecRefinement == InitRefinement /\ [][NextRefinement]_vars

(***************************************************************************)
(* Calls that share the curvature increment about the local z axis and     *)
(* differ in everything else: the displacement increments, the other       *)
(* rotation components, the large_strain flag, the eigenstrain increment.  *)
(***************************************************************************)
DriveConfigs ==
  { [BaseConfig EXCEPT !.hardening_constant = R1],
    [BaseConfig EXCEPT !.hardening_constant = R1, !.large_strain = TRUE],
    [BaseConfig EXCEPT !.hardening_constant = R1,
                       !.disp_eigenstrain_increment = <<1, 0, 0>>,
                       !.rot_eigenstrain_increment = <<0, 0, 1>>],
    [BaseConfig EXCEPT !.hardening_function = FnLinear],
    [BaseConfig EXCEPT !.hardening_function = FnLinear, !.large_strain = TRUE,
                       !.disp_eigenstrain_increment = <<0, 1, 0>>] }

DriveInputs ==
  { In(Z3, Z3, Z3, <<0, 0, 1>>),
    In(Z3, <<1, 0, 0>>, <<0, 1, 0>>, <<1, 1, 1>>),
    In(Z3, Z3, Z3, <<0, 0, 2>>),
    In(<<0, 1, 0>>, <<1, 0, 2>>, <<1, 0, 0>>, <<0, 1, 2>>) }

InitDrive == InitWith(DriveConfigs)

NextDrive ==
  \/ Construct
  \/ \E e \in cfg.elems : InitStatefulProperties(e)
  \/ \E e \in cfg.elems, in \in DriveInputs : ComputePropertiesBegin(e, in, FALSE)
  \/ QpStrainBegin
  \/ LayerBegin
  \/ NewtonIter
  \/ NewtonConverged
  \/ LayerFinish
  \/ QpStrainFinish
  \/ AdvanceStep

SpecDrive == InitDrive /\ [][NextDrive]_vars

(***************************************************************************)
(* Calls with and without the Jacobian on two quadrature points, some of   *)
(* which fail in the return mapping of a layer.                            *)
(***************************************************************************)
CycleConfigs ==
  { [BaseConfig EXCEPT !.nqp = NumQp, !.hardening_constant = R1],
    [BaseConfig EXCEPT !.nqp = NumQp, !.hardening_function = FnKink] }

CycleCalls ==
  { <<In(Z3, Z3, Z3, <<0, 0, 2>>), TRUE>>,
    <<In(Z3, <<1, 0, 0>>, Z3, <<0, 1, 1>>), TRUE>>,
    <<In(Z3, Z3, Z3, <<0, 0, 3>>), FALSE>> }

InitCycle == InitWith(CycleConfigs)

NextCycle ==
  \/ Construct
  \/ \E e \in cfg.elems : InitStatefulProperties(e)
  \/ \E e \in cfg.elems, c \in CycleCalls : ComputePropertiesBegin(e, c[1], c[2])
  \/ QpStrainBegin
  \/ LayerBegin
  \/ NewtonIter
  \/ NewtonConverged
  \/ LayerFinish
  \/ QpStrainFinish
  \/ computeStiffnessMatrix
  \/ AdvanceStep

SpecCycle == InitCycle /\ [][NextCycle]_vars

(***************************************************************************)
(* Vocabulary of the properties.                                           *)
(***************************************************************************)
(* centroid offset of layer i (1-based): -depth/2 + (i - 1/2) * depth/N *)
LayerZ(i) ==
  RAdd(RNeg(RDiv(cfg.depth, RI(2))),
       RMul(Rat(2 * i - 1, 2), RDiv(cfg.depth, RI(cfg.nlayers))))

(* the latest call for element e has returned normally *)
Returned(e) == status[e] = "ok"

(* the curvature increment of the latest call at (e, q) *)
Kappa(e, q) == cur[e][q].total_stretch

TrialOf(e, q, i) ==
  RAdd(old[e][q].direct_stress[i],
       RMul(RMul(cfg.material_flexure, Kappa(e, q)), LayerZ(i)))

YieldExcess(e, q, i) ==
  RSub(RSub(RAbs(TrialOf(e, q, i)), old[e][q].hardening_variable[i]), cfg.yield_stress)

Yields(e, q, i) == RGt(YieldExcess(e, q, i), R0)

LinearHardening == cfg.hardening_function.kind = "none"

ZeroInput == In(Z3, Z3, Z3, Z3)

PlasticLayer == pc \in {"newton", "layerfin", "failed"} /\ RGt(loc.yield_condition, R0)

(***************************************************************************)
(* C1 (as stated): the Newton loop of a layer performs at most max_its     *)
(* update steps; a solve that has not met the stopping test by then fails   *)
(* and returns no plastic strain increment; a layer whose loop is left      *)
(* normally has the convergence test satisfied.                             *)
(***************************************************************************)
C1_AtMostMaxItsUpdates ==
  /\ loc.iteration <= max_its
  /\ pc = "failed" => ~accepted[qp][loc.i + 1].left
  /\ (pc = "layerfin" /\ RGt(loc.yield_condition, R0)) =>
        ~LoopCond(loc.residual, loc.reference_residual)

(***************************************************************************)
(* C1 (amended): the loop performs at most max_its + 1 update steps, and   *)
(* the update numbered max_its + 1 always ends the call in the failure;     *)
(* a failed solve records no accepted increment and leaves the layer's     *)
(* plastic strain at its previous-step value; a layer whose loop is left   *)
(* normally has performed at most max_its updates and satisfies both       *)
(* tolerance tests, and so does every yielding layer of a returned call.   *)
(***************************************************************************)
C1_CapThenFailure ==
  /\ loc.iteration <= max_its + 1
  /\ (loc.iteration = max_its + 1) <=> (pc = "failed")
  /\ pc = "failed" =>
        /\ ~accepted[qp][loc.i + 1].left
        /\ cur[elem][qp].plastic_strain[loc.i + 1] = old[elem][qp].plastic_strain[loc.i + 1]
        /\ status[elem] = "failed"
  /\ (pc = "layerfin" /\ RGt(loc.yield_condition, R0)) =>
        ~LoopCond(loc.residual, loc.reference_residual)
  /\ pc = "done" =>
        \A q \in Qps, i \in Layers :
          Yields(elem, q, i) =>
            /\ accepted[q][i].left
            /\ accepted[q][i].iteration <= max_its
            /\ ~LoopCond(accepted[q][i].residual, accepted[q][i].reference_residual)

C1_Witness == pc = "failed" /\ loc.iteration = max_its + 1

(***************************************************************************)
(* C2 (as stated): the Newton iteration stops as soon as either tolerance  *)
(* test is met, accepting the current increment.                           *)
(***************************************************************************)
C2_EitherTestStops ==
  [][ ( /\ pc = "newton"
        /\ \/ AbsTestMet(loc.residual)
           \/ RelTestMet(loc.residual, loc.reference_residual) )
      => ( /\ pc' = "layerfin"
           /\ accepted'[qp][loc.i + 1].dEp = loc.plastic_strain_increment ) ]_vars

(***************************************************************************)
(* C2 (amended): the Newton iteration stops exactly when both tolerance    *)
(* tests are met, and then accepts the current increment; while either     *)
(* test is unmet another update step is performed.                         *)
(***************************************************************************)
C2_BothTestsStop ==
  [][ pc = "newton" =>
        /\ ( /\ AbsTestMet(loc.residual)
             /\ RelTestMet(loc.residual, loc.reference_residual) )
           <=> (pc' = "layerfin")
        /\ pc' = "layerfin" =>
             /\ accepted'[qp][loc.i + 1].left
             /\ accepted'[qp][loc.i + 1].dEp = loc.plastic_strain_increment
        /\ pc' # "layerfin" => loc'.iteration = loc.iteration + 1 ]_vars

C2_Witness ==
  /\ pc = "newton"
  /\ loc.iteration >= 1
  /\ AbsTestMet(loc.residual)
  /\ ~RelTestMet(loc.residual, loc.reference_residual)

(***************************************************************************)
(* C3: after a call that returned, every layer whose trial stress does not *)
(* exceed the yield condition has its plastic strain and hardening         *)
(* variable at their previous-step values and its direct stress equal to   *)
(* the trial stress.                                                       *)
(***************************************************************************)
C3_ElasticLayerUnchanged ==
  \A e \in cfg.elems :
    Returned(e) =>
      \A q \in Qps, i \in Layers :
        ~Yields(e, q, i) =>
          /\ cur[e][q].plastic_strain[i] = old[e][q].plastic_strain[i]
          /\ cur[e][q].hardening_variable[i] = old[e][q].hardening_variable[i]
          /\ cur[e][q].direct_stress[i] = TrialOf(e, q, i)

C3_Witness ==
  \E e \in cfg.elems :
    /\ Returned(e)
    /\ \E q \in Qps, i \in Layers :
         /\ ~Yields(e, q, i)
         /\ Kappa(e, q) # R0
         /\ old[e][q].plastic_strain[i] # R0
         /\ old[e][q].hardening_variable[i] # R0

(***************************************************************************)
(* C4 (as stated): with linear hardening, for every yielding layer the     *)
(* magnitude of the accepted plastic strain increment equals               *)
(* (|trial| - yield_stress - hardening_old) / (modulus + slope).           *)
(***************************************************************************)
ClosedForm(e, q, i) ==
  RDiv(YieldExcess(e, q, i), RAdd(cfg.material_flexure, cfg.hardening_constant))

IncrementMagnitude(e, q, i) ==
  RAbs(RSub(cur[e][q].plastic_strain[i], old[e][q].plastic_strain[i]))

C4_ClosedFormAlways ==
  \A e \in cfg.elems :
    (Returned(e) /\ LinearHardening) =>
      \A q \in Qps, i \in Layers :
        Yields(e, q, i) => IncrementMagnitude(e, q, i) = ClosedForm(e, q, i)

(***************************************************************************)
(* C4 (amended): with linear hardening, for every yielding layer whose     *)
(* yield excess does not already meet both tolerance tests the magnitude   *)
(* of the accepted plastic strain increment equals the closed form; a      *)
(* yielding layer whose yield excess meets both tests gets no increment.   *)
(***************************************************************************)
C4_ClosedFormOutsideTolerance ==
  \A e \in cfg.elems :
    (Returned(e) /\ LinearHardening) =>
      \A q \in Qps, i \in Layers :
        Yields(e, q, i) =>
          IF LoopCond(YieldExcess(e, q, i), RAbs(TrialOf(e, q, i)))
            THEN IncrementMagnitude(e, q, i) = ClosedForm(e, q, i)
            ELSE IncrementMagnitude(e, q, i) = R0

C4_Witness ==
  \E e \in cfg.elems :
    /\ Returned(e)
    /\ LinearHardening
    /\ cfg.hardening_constant # R0
    /\ \E q \in Qps, i \in Layers :
         /\ Yields(e, q, i)
         /\ old[e][q].hardening_variable[i] # R0
         /\ LoopCond(YieldExcess(e, q, i), RAbs(TrialOf(e, q, i)))
         /\ IncrementMagnitude(e, q, i) # R0

(***************************************************************************)
(* C5: on a successful plastic step of a layer the increment with which    *)
(* the loop was left is non-negative and is given the sign of the trial    *)
(* stress: new plastic strain = previous + signed increment, new direct    *)
(* stress = previous stress + modulus * (curvature increment * z_offset -  *)
(* signed increment), for tensile and for compressive trial stress.        *)
(***************************************************************************)
SignedAccepted(e, q, i) ==
  IF RLt(TrialOf(e, q, i), R0) THEN RNeg(accepted[q][i].dEp) ELSE accepted[q][i].dEp

C5_SignedPlasticUpdate ==
  pc = "done" =>
    \A q \in Qps, i \in Layers :
      Yields(elem, q, i) =>
        /\ accepted[q][i].left
        /\ RLe(R0, accepted[q][i].dEp)
        /\ cur[elem][q].plastic_strain[i] =
             RAdd(old[elem][q].plastic_strain[i], SignedAccepted(elem, q, i))
        /\ cur[elem][q].direct_stress[i] =
             RAdd(old[elem][q].direct_stress[i],
                  RMul(cfg.material_flexure,
                       RSub(RMul(Kappa(elem, q), LayerZ(i)), SignedAccepted(elem, q, i))))

C5_Witness ==
  /\ pc = "done"
  /\ \E q \in Qps, i \in Layers, j \in Layers :
       /\ Yields(elem, q, i) /\ RLt(TrialOf(elem, q, i), R0)
       /\ Yields(elem, q, j) /\ RGt(TrialOf(elem, q, j), R0)
       /\ RGt(accepted[q][i].dEp, R0)
       /\ RGt(accepted[q][j].dEp, R0)
       /\ old[elem][q].plastic_strain[i] # R0

(***************************************************************************)
(* C6: after a call that returned, the stress resultant of every           *)
(* quadrature point is the sum over the N layers of                        *)
(* direct_stress_i * width * z_i * thickness with thickness = depth/N and  *)
(* z_i the centroid offset, and the layers are visited from the most       *)
(* negative offset to the most positive.                                   *)
(***************************************************************************)
RECURSIVE MomentSum(_, _, _)
MomentSum(e, q, n) ==
  IF n = 0 THEN R0
  ELSE RAdd(MomentSum(e, q, n - 1),
            RMul(RMul(RMul(cur[e][q].direct_stress[n], cfg.width), LayerZ(n)),
                 RDiv(cfg.depth, RI(cfg.nlayers))))

C6_StressResultantIsLayerSum ==
  /\ \A e \in cfg.elems :
       Returned(e) => \A q \in Qps : cur[e][q].stres = MomentSum(e, q, cfg.nlayers)
  /\ pc \in {"newton", "layerfin"} => loc.zmidl = LayerZ(loc.i + 1)

C6_Witness ==
  \E e \in cfg.elems :
    /\ Returned(e)
    /\ cfg.nlayers >= 3
    /\ \E q \in Qps :
         /\ cur[e][q].stres # R0
         /\ \E i \in Layers : Yields(e, q, i)

(***************************************************************************)
(* C7: in a state reached from the zero state by successful steps, a call  *)
(* with zero displacement and rotation increments leaves every layer's     *)
(* direct stress and plastic strain and the stress resultant equal to      *)
(* their previous-step values.                                             *)
(***************************************************************************)
C7_ZeroIncrementIdempotent ==
  (pc = "done" /\ inp = ZeroInput) =>
    \A q \in Qps :
      /\ cur[elem][q].direct_stress = old[elem][q].direct_stress
      /\ cur[elem][q].plastic_strain = old[elem][q].plastic_strain
      /\ cur[elem][q].stres = old[elem][q].stres

C7_Witness ==
  /\ pc = "done"
  /\ inp = ZeroInput
  /\ step >= 1
  /\ \E q \in Qps, i \in Layers :
       /\ old[elem][q].plastic_strain[i] # R0
       /\ old[elem][q].stres # R0
       /\ Yields(elem, q, i)

(***************************************************************************)
(* C8: as long as no layer's yield condition has been exceeded since the   *)
(* zero initial state, every layer's plastic strain and hardening variable *)
(* are zero, in the current values and in the previous-step snapshots.     *)
(***************************************************************************)
C8_ElasticHistoryKeepsZero ==
  ~yielded =>
    \A e \in cfg.elems, q \in Qps, i \in Layers :
      /\ cur[e][q].plastic_strain[i] = R0
      /\ cur[e][q].hardening_variable[i] = R0
      /\ old[e][q].plastic_strain[i] = R0
      /\ old[e][q].hardening_variable[i] = R0

C8_Witness ==
  /\ ~yielded
  /\ step >= 1
  /\ \E e \in cfg.elems :
       /\ Returned(e)
       /\ \E q \in Qps, i \in Layers :
            /\ old[e][q].direct_stress[i] # R0
            /\ cur[e][q].direct_stress[i] # old[e][q].direct_stress[i]

(***************************************************************************)
(* C9: for every element, the rotation tensor used by a call (and          *)
(* published as current and initial rotation) is the local frame computed  *)
(* from that element's own axis and the y_orientation, whatever elements   *)
(* were initialized or processed before it.                                *)
(***************************************************************************)
C9_OwnFrameUsed ==
  \A e \in cfg.elems :
    status[e] \in {"running", "ok", "failed"} =>
      /\ prop[e][1].total_rotation = LocalFrame(e)
      /\ prop[e][1].initial_rotation = LocalFrame(e)

(***************************************************************************)
(* C10: no step of a call, whether the call returns or fails, modifies a   *)
(* previous-step snapshot; only the host's acceptance of a time step does. *)
(***************************************************************************)
C10_SnapshotsReadOnly ==
  [][ (pc # "setup" /\ step' = step) => old' = old ]_vars

C10_Witness ==
  /\ pc = "failed"
  /\ step >= 1
  /\ cur[elem][qp].hardening_variable # old[elem][qp].hardening_variable
  /\ cur[elem][qp].total_stretch # old[elem][qp].total_stretch
  /\ cur[elem][qp].direct_stress # old[elem][qp].direct_stress

(***************************************************************************)
(* C11: after a call that returned, each total-strain accumulator of every *)
(* quadrature point equals its own previous-step value plus the strain     *)
(* increment rotated from the local to the global frame:                   *)
(* total_disp_strain = total_disp_strain_old + R^T * displacement strain   *)
(* increment and total_rot_strain = total_rot_strain_old + R^T * rotation  *)
(* strain increment.                                                       *)
(***************************************************************************)
RotatedToGlobal(e, v) == MVec(MTranspose(prop[e][1].total_rotation), v)

C11_AccumulatorsAddOwnPrevious ==
  pc = "done" =>
    \A q \in Qps :
      /\ cur[elem][q].total_disp_strain =
           VAdd(old[elem][q].total_disp_strain,
                RotatedToGlobal(elem, prop[elem][q].mech_disp_strain_increment))
      /\ cur[elem][q].total_rot_strain =
           VAdd(old[elem][q].total_rot_strain,
                RotatedToGlobal(elem, prop[elem][q].mech_rot_strain_increment))

(***************************************************************************)
(* C12: a configuration with large_strain set and a non-zero first moment  *)
(* of area (Ay or Az, at either index, of either sign) is rejected by the  *)
(* constructor: it never gets past construction, so no stateful property   *)
(* is initialized and no stress computation runs.                          *)
(***************************************************************************)
NonZeroFirstMoment ==
  cfg.Ay # R0 \/ cfg.Ay1 # R0 \/ cfg.Az # R0 \/ cfg.Az1 # R0

C12_AsymmetricLargeStrainRejected ==
  (cfg.large_strain /\ NonZeroFirstMoment) => pc \in {"construct", "error"}


(***************************************************************************)
(* C13: with linear hardening (slope >= 0, positive modulus and yield      *)
(* stress), over MonotonicSteps consecutive positive curvature increments  *)
(* from the zero state no call ends in the convergence failure: every      *)
(* layer's Newton loop is left after at most two updates, far below the    *)
(* cap, with both stopping tests satisfied.                                *)
(***************************************************************************)
C13_MonotonicLoadingConverges ==
  /\ pc # "failed"
  /\ \A e \in cfg.elems : status[e] # "failed"
  /\ loc.iteration <= 2
  /\ loc.iteration < max_its
  /\ (pc = "layerfin" /\ RGt(loc.yield_condition, R0)) =>
        /\ accepted[qp][loc.i + 1].left
        /\ ~LoopCond(loc.residual, loc.reference_residual)

C13_Witness ==
  /\ step = MonotonicSteps
  /\ pc = "done"
  /\ yielded
  /\ cfg.hardening_constant = Rat(1, 10)
  /\ \A i \in 1..cfg.nlayers :
        LayerZ(i) # R0 => cur[elem][qp].plastic_strain[i] # old[elem][qp].plastic_strain[i]


(* the moment of a call's curvature increment computed fully elastically   *)
(* from the zero state: the sum over the first n layers of                 *)
(* modulus * kappa * z * width * z * thickness                             *)
RECURSIVE ElasticMoment(_, _)
ElasticMoment(kappa, n) ==
  IF n = 0 THEN R0
  ELSE RAdd(ElasticMoment(kappa, n - 1),
            RProduct(<<cfg.material_flexure, kappa, LayerZ(n), cfg.width, LayerZ(n),
                       RDiv(cfg.depth, RI(cfg.nlayers))>>))

(* the scenario: section 0.1 x 0.2, ten layers, modulus 2e5, yield stress  *)
(* 200, hardening constant 1e3, and a returned call from the zero state    *)
(* whose curvature increment is 0.01                                       *)
ScenarioCall ==
  /\ cfg.width = Rat(1, 10) /\ cfg.depth = Rat(1, 5) /\ cfg.nlayers = 10
  /\ cfg.material_flexure = RI(200000) /\ cfg.yield_stress = RI(200)
  /\ cfg.hardening_constant = RI(1000) /\ LinearHardening
  /\ pc = "done" /\ Returned(elem) /\ step = 0
  /\ Kappa(elem, qp) = Rat(1, 100)

(***************************************************************************)
(* C14 (as stated): in the scenario the layers farthest from the neutral   *)
(* axis yield (|trial stress| > 200), the central layers stay elastic, and *)
(* the integrated moment is strictly less than the moment of the same step *)
(* computed fully elastically.                                             *)
(***************************************************************************)
C14_OuterLayersYield ==
  ScenarioCall =>
    /\ Yields(elem, qp, 1) /\ Yields(elem, qp, cfg.nlayers)
    /\ RGt(RAbs(TrialOf(elem, qp, 1)), RI(200))
    /\ ~Yields(elem, qp, 5) /\ ~Yields(elem, qp, 6)
    /\ RLt(cur[elem][qp].stres, ElasticMoment(Kappa(elem, qp), cfg.nlayers))

(***************************************************************************)
(* C14 (amended): in the scenario no layer yields: the trial stress of the *)
(* layers farthest from the neutral axis (z = -0.09 and 0.09) has          *)
(* magnitude 180, below the yield stress 200, every plastic strain stays   *)
(* zero, and the integrated moment equals the moment of the same step      *)
(* computed fully elastically, 0.132.                                      *)
(***************************************************************************)
C14_ScenarioStaysElastic ==
  ScenarioCall =>
    /\ \A i \in Layers :
          /\ ~Yields(elem, qp, i)
          /\ RLe(RAbs(TrialOf(elem, qp, i)), RI(180))
          /\ cur[elem][qp].plastic_strain[i] = R0
          /\ cur[elem][qp].direct_stress[i] = TrialOf(elem, qp, i)
    /\ TrialOf(elem, qp, 1) = RI(-180) /\ TrialOf(elem, qp, cfg.nlayers) = RI(180)
    /\ cur[elem][qp].stres = ElasticMoment(Kappa(elem, qp), cfg.nlayers)
    /\ cur[elem][qp].stres = Rat(132, 1000)

C14_Witness ==
  /\ ScenarioCall
  /\ inp = In(Z3, Z3, Z3, <<0, 0, 1>>)
  /\ cur[elem][qp].direct_stress[cfg.nlayers] = RI(180)


(* a call made while the host computes the Jacobian has returned *)
JacobianCallReturned == pc = "done" /\ jac /\ Returned(elem)

(* section properties averaged over the two ends, as the claims name them *)
EndAverage(a, b) == RDiv(RAdd(a, b), RI(2))
SecE == cfg.material_stiffness[1]
SecG == cfg.material_stiffness[2]
SecA == EndAverage(cfg.area, cfg.area1)
SecIy == EndAverage(cfg.Iy, cfg.Iy1)
SecIz == EndAverage(cfg.Iz, cfg.Iz1)
SecJ == IF cfg.has_Ix THEN EndAverage(cfg.Ix, cfg.Ix1) ELSE RAdd(SecIy, SecIz)
SecL == prop[elem][1].original_length
SecGAL4 == RDiv(RProduct(<<SecG, SecA, SecL>>), RI(4))

(* the local blocks as the statement gives them *)
StatedK11 ==
  Diag(RDiv(RMul(SecE, SecA), SecL), RDiv(RMul(SecG, SecA), SecL),
       RDiv(RMul(SecG, SecA), SecL))
StatedK21 ==
  [r \in 1..3 |-> [c \in 1..3 |->
     IF r = 3 /\ c = 2 THEN RDiv(RMul(SecG, SecA), RI(2))
     ELSE IF r = 2 /\ c = 3 THEN RNeg(RDiv(RMul(SecG, SecA), RI(2)))
     ELSE R0]]
StatedK22 ==
  Diag(RDiv(RMul(SecG, SecJ), SecL),
       RAdd(RDiv(RMul(SecE, SecIz), SecL), SecGAL4),
       RAdd(RDiv(RMul(SecE, SecIy), SecL), SecGAL4))
StatedK22Cross ==
  MAdd(MNeg(StatedK22), Diag(R0, RMul(RI(2), SecGAL4), RMul(RI(2), SecGAL4)))

(***************************************************************************)
(* C15: in small-strain mode, after a call made while the Jacobian is      *)
(* computed, the five blocks are the rotation to the global frame of the   *)
(* local blocks K11 = diag(E*A/L, G*A/L, G*A/L); K21 with only the entries *)
(* (2,1) = +G*A/2 and (1,2) = -G*A/2; K22 = diag(G*J/L, E*Iz/L + G*A*L/4,  *)
(* E*Iy/L + G*A*L/4), J = Iy + Iz when Ix is not supplied; K22_cross =     *)
(* -K22 with 2*G*A*L/4 added on the two bending diagonal entries; and      *)
(* K21_cross = -K21; the section properties are the averages of the        *)
(* values at the two ends.                                                 *)
(***************************************************************************)
C15_SmallStrainBlocks ==
  (JacobianCallReturned /\ ~cfg.large_strain) =>
    /\ K[elem].K11 = ToGlobal(StatedK11)
    /\ K[elem].K21 = ToGlobal(StatedK21)
    /\ K[elem].K22 = ToGlobal(StatedK22)
    /\ K[elem].K22_cross = ToGlobal(StatedK22Cross)
    /\ K[elem].K21_cross = MNeg(K[elem].K21)
    /\ MTranspose(StatedK21) = MNeg(StatedK21)

C15_Witness ==
  /\ JacobianCallReturned /\ ~cfg.large_strain
  /\ cfg.area # cfg.area1 /\ cfg.Iy # cfg.Iy1 /\ cfg.Iz # cfg.Iz1
  /\ ~cfg.has_Ix
  /\ ToGlobal(StatedK22) # StatedK22
  /\ K[elem].K22_cross # MNeg(K[elem].K22)


(* no layer of the current element has exceeded the yield condition so far *)
ElasticLoading == ~yielded

(***************************************************************************)
(* C16 (as stated): under pure elastic loading the two bending diagonal    *)
(* entries of the local K22 block equal the closed-form linear bending     *)
(* stiffness E*Iz/L and E*Iy/L.                                            *)
(***************************************************************************)
C16_BendingEntriesAreEIOverL ==
  (JacobianCallReturned /\ ~cfg.large_strain /\ ElasticLoading) =>
     K[elem].K22 =
       ToGlobal(Diag(RDiv(RMul(SecG, SecJ), SecL), RDiv(RMul(SecE, SecIz), SecL),
                     RDiv(RMul(SecE, SecIy), SecL)))

(***************************************************************************)
(* C16 (amended): under pure elastic loading the two bending diagonal      *)
(* entries of the local K22 block equal the linear bending stiffness plus  *)
(* the shear term, E*Iz/L + G*A*L/4 and E*Iy/L + G*A*L/4, and every        *)
(* plastic strain is zero.                                                 *)
(***************************************************************************)
C16_BendingEntriesWithShearTerm ==
  (JacobianCallReturned /\ ~cfg.large_strain /\ ElasticLoading) =>
     /\ K[elem].K22 =
          ToGlobal(Diag(RDiv(RMul(SecG, SecJ), SecL),
                        RAdd(RDiv(RMul(SecE, SecIz), SecL), SecGAL4),
                        RAdd(RDiv(RMul(SecE, SecIy), SecL), SecGAL4)))
     /\ RGt(SecGAL4, R0)
     /\ \A q \in Qps, i \in Layers : cur[elem][q].plastic_strain[i] = R0

C16_Witness ==
  /\ JacobianCallReturned /\ ~cfg.large_strain /\ ElasticLoading
  /\ step >= 1
  /\ SecIy # SecIz
  /\ cur[elem][qp].total_rot_strain # VZero


(***************************************************************************)
(* C17: the five stiffness blocks are written only in a call made while    *)
(* the host computes the Jacobian, by computeStiffnessMatrix at the end of *)
(* that call; every step of any other call leaves all five blocks of every *)
(* element unchanged, and such a call still returns with the curvature     *)
(* increment, the layer stresses and the stress resultant updated.         *)
(***************************************************************************)
C17_BlocksWrittenOnlyForJacobian ==
  [][ /\ (K' # K) => (jac /\ jac' /\ pc = "stiffness" /\ pc' = "done")
      /\ (~jac') => (K' = K)
      /\ (~jac /\ pc = "qpfinish" /\ pc' = "done") =>
            /\ status'[elem] = "ok"
            /\ \A q \in Qps :
                  /\ cur'[elem][q].total_stretch = grad.grad_rot_0_local_t[3]
                  /\ cur'[elem][q].stres = loc.moment
                  /\ \A i \in Layers :
                        cur'[elem][q].plastic_strain[i] = old[elem][q].plastic_strain[i]
                           => cur'[elem][q].direct_stress[i] =
                                RAdd(old[elem][q].direct_stress[i],
                                     RProduct(<<cfg.material_flexure,
                                                grad.grad_rot_0_local_t[3], LayerZ(i)>>))
    ]_vars

C17_Witness ==
  /\ pc = "done" /\ ~jac /\ Returned(elem)
  /\ K[elem] # ZeroBlocks
  /\ cur[elem][qp].stres # R0
  /\ cur[elem][qp].direct_stress # old[elem][qp].direct_stress
  /\ \E i \in Layers : cur[elem][qp].plastic_strain[i] # old[elem][qp].plastic_strain[i]


(***************************************************************************)
(* C18: with a hardening function f configured, every pass of a layer's    *)
(* Newton loop stores the hardening value f(|plastic_strain_old| + dEp) -  *)
(* yield_stress taken at the iterate dEp the pass starts from, and divides *)
(* the residual by modulus + f'(|plastic_strain_old|): the derivative is   *)
(* taken at the previous-step plastic strain only, is the same in every    *)
(* pass of that layer's solve and does not depend on dEp.                  *)
(***************************************************************************)
C18_ValueAtIterateDerivativeAtOld ==
  [][ (pc = "newton" /\ loc'.iteration = loc.iteration + 1
         /\ cfg.hardening_function.kind # "none") =>
        LET f == cfg.hardening_function
            ps_old == RAbs(old[elem][qp].plastic_strain[loc.i + 1])
            dEp == loc.plastic_strain_increment
            value == RSub(FunctionValue(f, RAdd(ps_old, dEp)), cfg.yield_stress)
            slope == FunctionDerivative(f, ps_old)
        IN  /\ cur'[elem][qp].hardening_variable[loc.i + 1] = value
            /\ RMul(RSub(loc'.plastic_strain_increment, dEp),
                    RAdd(cfg.material_flexure, slope))
                 = RSub(RSub(RSub(RAbs(loc.trial_stress), value), cfg.yield_stress),
                        RMul(cfg.material_flexure, dEp))
    ]_vars

C18_Witness ==
  /\ pc = "newton"
  /\ cfg.hardening_function.kind # "none"
  /\ loc.iteration >= 2
  /\ FunctionDerivative(cfg.hardening_function,
                        RAdd(RAbs(old[elem][qp].plastic_strain[loc.i + 1]),
                             loc.plastic_strain_increment))
       # FunctionDerivative(cfg.hardening_function,
                            RAbs(old[elem][qp].plastic_strain[loc.i + 1]))


(* the midpoint sum of a linear stress field modulus * kappa * z over the  *)
(* first k of n equal layers, and its closed form                          *)
RECURSIVE MidpointSum(_, _, _)
MidpointSum(kappa, n, k) ==
  IF k = 0 THEN R0
  ELSE LET t == RDiv(cfg.depth, RI(n))
           z == RAdd(RNeg(RDiv(cfg.depth, RI(2))), RMul(Rat(2 * k - 1, 2), t))
       IN  RAdd(MidpointSum(kappa, n, k - 1),
                RProduct(<<cfg.material_flexure, kappa, z, cfg.width, z, t>>))

ContinuumMoment(kappa) ==
  RDiv(RProduct(<<cfg.material_flexure, kappa, cfg.width, cfg.depth, cfg.depth, cfg.depth>>),
       RI(12))

ClosedFormMoment(kappa, n) ==
  RMul(ContinuumMoment(kappa), RSub(R1, Rat(1, n * n)))

(* the discretization bound for doubling n layers *)
RefinementBound(kappa, n) == RMul(RAbs(ContinuumMoment(kappa)), Rat(3, 4 * n * n))

ElasticStepFromZero ==
  /\ pc = "done" /\ Returned(elem)
  /\ old[elem][qp].direct_stress = ZeroLayers
  /\ old[elem][qp].hardening_variable = ZeroLayers
  /\ old[elem][qp].plastic_strain = ZeroLayers
  /\ \A i \in Layers : ~Yields(elem, qp, i)

(***************************************************************************)
(* C19: for a purely elastic step from the zero state the stress resultant *)
(* of N layers is the midpoint sum, which equals modulus * curvature *     *)
(* width * depth^3/12 * (1 - 1/N^2); the sum over 2N layers differs from   *)
(* it by modulus * |curvature| * width * depth^3/12 * 3/(4 N^2), a bound   *)
(* that shrinks as N grows, and the resultant of a section with an even    *)
(* number of layers differs from the closed form of half as many layers by *)
(* no more than that bound.                                                *)
(***************************************************************************)
C19_RefinementConsistent ==
  ElasticStepFromZero =>
    LET k == Kappa(elem, qp)
        n == cfg.nlayers
    IN  /\ cur[elem][qp].stres = MidpointSum(k, n, n)
        /\ cur[elem][qp].stres = ClosedFormMoment(k, n)
        /\ MidpointSum(k, 2 * n, 2 * n) = ClosedFormMoment(k, 2 * n)
        /\ RAbs(RSub(MidpointSum(k, 2 * n, 2 * n), cur[elem][qp].stres))
             = RefinementBound(k, n)
        /\ RLe(RefinementBound(k, n + 1), RefinementBound(k, n))
        /\ k # R0 => RLt(RefinementBound(k, n + 1), RefinementBound(k, n))
        /\ n % 2 = 0 =>
             RLe(RAbs(RSub(cur[elem][qp].stres, ClosedFormMoment(k, n \div 2))),
                 RefinementBound(k, n \div 2))

C19_Witness ==
  /\ ElasticStepFromZero
  /\ cfg.nlayers = MaxRefinedLayers
  /\ Kappa(elem, qp) # R0
  /\ cur[elem][qp].stres # R0
  /\ cur[elem][qp].stres # ClosedFormMoment(Kappa(elem, qp), cfg.nlayers \div 2)


(* the change of the local displacement gradient per unit displacement of  *)
(* node 0 along local axis j: grad_disp_0 = (disp1 - disp0) / L            *)
GradDispChange(j) ==
  VScale(RNeg(RDiv(R1, SecL)), [k \in 1..3 |-> IF k = j THEN R1 ELSE R0])

(* directional derivative, along a displacement of node 0, of the          *)
(* quadratic terms of the displacement strain increment; for a homogeneous *)
(* quadratic Q it is Q(x + h) - Q(x) - Q(h)                                *)
LargeDispStrainDerivative(j) ==
  LET gd == grad.grad_disp_0_local_t
      gr == grad.grad_rot_0_local_t
      ar == grad.avg_rot_local_t
      h == GradDispChange(j)
  IN  VSub(VSub(LargeDispStrain(VAdd(gd, h), gr, ar), LargeDispStrain(gd, gr, ar)),
           LargeDispStrain(h, VZero, VZero))

(* the same derivative of the linear terms *)
SmallDispStrainDerivative(j) == SmallDispStrain(GradDispChange(j), VZero, VZero)

(* force at node 0 per strain: -(E, G, G) times the strain derivative; the *)
(* small-strain block K11 is this expression of the linear terms           *)
TangentOf(derivative(_)) ==
  LET D == <<SecE, SecG, SecG>>
  IN  [r \in 1..3 |-> [c \in 1..3 |-> RNeg(RMul(D[r], derivative(c)[r]))]]

(***************************************************************************)
(* C20: when large_strain is set, the correction added to a stiffness      *)
(* block is the directional derivative of the quadratic strain terms of    *)
(* computeQpStrain; for the block K11 of node 0: K11 is the tangent of the *)
(* linear terms (the small-strain block) plus the tangent of the quadratic *)
(* terms of the displacement strain increment, both taken along the        *)
(* displacements of node 0.                                                *)
(***************************************************************************)
C20_LargeStrainTangentConsistent ==
  (JacobianCallReturned /\ cfg.large_strain) =>
     /\ ToGlobal(StatedK11) = ToGlobal(TangentOf(SmallDispStrainDerivative))
     /\ K[elem].K11 =
          MAdd(ToGlobal(StatedK11), ToGlobal(TangentOf(LargeDispStrainDerivative)))


(***************************************************************************)
(* C21: with linear hardening, after every successful plastic step of a    *)
(* layer the stored hardening variable equals the previous-step hardening  *)
(* variable plus the slope times the magnitude of the accepted plastic     *)
(* strain increment.                                                       *)
(***************************************************************************)
C21_HardeningAtAcceptedIncrement ==
  (pc = "done" /\ LinearHardening) =>
    \A q \in Qps, i \in Layers :
      (Yields(elem, q, i) /\ accepted[q][i].left) =>
        cur[elem][q].hardening_variable[i] =
          RAdd(old[elem][q].hardening_variable[i],
               RMul(cfg.hardening_constant, accepted[q][i].dEp))


(* the yield function of the stored state s of layer i *)
YieldFunction(s, i) ==
  RSub(RSub(RAbs(s.direct_stress[i]), s.hardening_variable[i]), cfg.yield_stress)

(***************************************************************************)
(* C22: with linear hardening (slope >= 0), in every state reached from    *)
(* the zero state by calls that returned, for every layer                  *)
(* |direct_stress| - hardening_variable - yield_stress <=                  *)
(* absolute_tolerance, in the values a returned call leaves and in the     *)
(* previous-step snapshots, and the hardening variable a returned call     *)
(* leaves is not below the one of the previous step, which is not below    *)
(* zero.                                                                   *)
(***************************************************************************)
C22_YieldConsistency ==
  LinearHardening =>
    \A e \in cfg.elems, q \in Qps, i \in Layers :
      /\ RLe(YieldFunction(old[e][q], i), cfg.absolute_tolerance)
      /\ RLe(R0, old[e][q].hardening_variable[i])
      /\ (pc = "done" /\ Returned(e)) =>
            /\ RLe(YieldFunction(cur[e][q], i), cfg.absolute_tolerance)
            /\ RLe(old[e][q].hardening_variable[i], cur[e][q].hardening_variable[i])

C22_Witness ==
  /\ pc = "done" /\ Returned(elem) /\ LinearHardening
  /\ step >= 1
  /\ \E i \in Layers :
       /\ RGt(old[elem][qp].hardening_variable[i], R0)
       /\ RGt(cur[elem][qp].hardening_variable[i], old[elem][qp].hardening_variable[i])
       /\ YieldFunction(cur[elem][qp], i) = R0

(***************************************************************************)
(* The layer update written as a function of the previous layer state, the *)
(* curvature increment about the local z axis and the layer parameters.    *)
(* It reads no displacement increment, no other rotation component, not    *)
(* the large_strain flag and no eigenstrain increment.                     *)
(***************************************************************************)
ZCurvature(e) ==
  MVec(prop[e][1].total_rotation,
       VScale(RDiv(R1, prop[e][1].original_length),
              VSub(VOfInt(inp.rot1), VOfInt(inp.rot0))))[3]

DrivenHardeningValue(o_hv, o_ep, dEp) ==
  IF LinearHardening
    THEN RAdd(o_hv, RMul(cfg.hardening_constant, dEp))
    ELSE RSub(FunctionValue(cfg.hardening_function, RAdd(RAbs(o_ep), dEp)),
              cfg.yield_stress)

DrivenSlope(o_ep) ==
  IF LinearHardening THEN cfg.hardening_constant
  ELSE FunctionDerivative(cfg.hardening_function, RAbs(o_ep))

RECURSIVE DrivenNewton(_, _, _, _, _, _)
DrivenNewton(o_hv, o_ep, trial, dEp, hv, it) ==
  LET residual == RSub(RSub(RSub(RAbs(trial), hv), cfg.yield_stress),
                       RMul(cfg.material_flexure, dEp))
      reference == RSub(RAbs(trial), RMul(cfg.material_flexure, dEp))
      met == /\ RLe(RAbs(residual), cfg.absolute_tolerance)
             /\ RLe(RAbs(residual), RMul(cfg.relative_tolerance, RAbs(reference)))
  IN  IF met \/ it > max_its
        THEN [dEp |-> dEp, hv |-> hv]
        ELSE LET hv2 == DrivenHardeningValue(o_hv, o_ep, dEp)
                 residual2 == RSub(RSub(RSub(RAbs(trial), hv2), cfg.yield_stress),
                                   RMul(cfg.material_flexure, dEp))
                 scalar == RDiv(residual2,
                                RAdd(cfg.material_flexure, DrivenSlope(o_ep)))
             IN  DrivenNewton(o_hv, o_ep, trial, RAdd(dEp, scalar), hv2, it + 1)

DrivenLayer(o_s, o_ep, o_hv, kappa, z) ==
  LET trial == RAdd(o_s, RMul(RMul(cfg.material_flexure, kappa), z))
      excess == RSub(RSub(RAbs(trial), o_hv), cfg.yield_stress)
  IN  IF RGt(excess, R0)
        THEN LET n == DrivenNewton(o_hv, o_ep, trial, R0, o_hv, 0)
                 signed == IF RLe(R0, trial) THEN n.dEp ELSE RNeg(n.dEp)
             IN  [direct_stress |->
                    RAdd(o_s, RMul(RSub(RMul(kappa, z), signed), cfg.material_flexure)),
                  plastic_strain |-> RAdd(o_ep, signed),
                  hardening_variable |-> n.hv]
        ELSE [direct_stress |-> trial, plastic_strain |-> o_ep,
              hardening_variable |-> o_hv]

DrivenLayerOf(e, q, i) ==
  DrivenLayer(old[e][q].direct_stress[i], old[e][q].plastic_strain[i],
              old[e][q].hardening_variable[i], ZCurvature(e), LayerZ(i))

RECURSIVE DrivenMoment(_, _, _)
DrivenMoment(e, q, n) ==
  IF n = 0 THEN R0
  ELSE RAdd(DrivenMoment(e, q, n - 1),
            RMul(RMul(RMul(DrivenLayerOf(e, q, n).direct_stress, cfg.width), LayerZ(n)),
                 RDiv(cfg.depth, RI(cfg.nlayers))))

(***************************************************************************)
(* C23: the layer update is driven only by the z-component of the local    *)
(* rotation-gradient increment.  After every returned call the curvature   *)
(* that drove the layers is that component, and the layer stresses,        *)
(* plastic strains, hardening variables and the stress resultant are the   *)
(* values of one function of the previous layer state and that curvature:  *)
(* calls that agree on them agree on the results, whatever their           *)
(* displacement increments, other rotation components, large_strain flag   *)
(* and eigenstrain increments.                                             *)
(***************************************************************************)
C23_DrivenByZCurvatureOnly ==
  (pc = "done" /\ Returned(elem)) =>
    \A q \in Qps :
      /\ Kappa(elem, q) = ZCurvature(elem)
      /\ cur[elem][q].stres = DrivenMoment(elem, q, cfg.nlayers)
      /\ \A i \in Layers :
           LET d == DrivenLayerOf(elem, q, i)
           IN  /\ cur[elem][q].direct_stress[i] = d.direct_stress
               /\ cur[elem][q].plastic_strain[i] = d.plastic_strain
               /\ cur[elem][q].hardening_variable[i] = d.hardening_variable

(* a yielding call on a yielded previous state whose other inputs are set *)
C23_Witness ==
  /\ pc = "done" /\ Returned(elem) /\ step >= 1
  /\ inp.disp1 # Z3 /\ inp.rot0 # Z3 /\ inp.rot1[1] # 0
  /\ cfg.large_strain /\ cfg.disp_eigenstrain_increment # Z3
  /\ \E i \in Layers :
       /\ old[elem][qp].plastic_strain[i] # R0
       /\ cur[elem][qp].plastic_strain[i] # old[elem][qp].plastic_strain[i]
       /\ cur[elem][qp].hardening_variable[i] # old[elem][qp].hardening_variable[i]

(***************************************************************************)
(* Vocabulary of the per-step cycle.                                       *)
(***************************************************************************)
InLayers == pc \in {"layer", "newton", "layerfin"}

(* the rotation is set and the increments of the call are computed *)
IncrementsComputed ==
  LET R == prop[elem][1].total_rotation
      L == prop[elem][1].original_length
      over_length(v1, v0) == VScale(RDiv(R1, L), VSub(VOfInt(v1), VOfInt(v0)))
  IN  /\ R = computeRotation
      /\ grad.grad_disp_0_local_t = MVec(R, over_length(inp.disp1, inp.disp0))
      /\ grad.grad_rot_0_local_t = MVec(R, over_length(inp.rot1, inp.rot0))
      /\ cur[elem][qp].total_stretch = grad.grad_rot_0_local_t[3]

Accumulators(s) == <<s.total_disp_strain, s.total_rot_strain>>

(* the step writes the total-strain accumulators of (e, q) *)
AccumulatorsWritten(e, q) == Accumulators(cur[e][q])' # Accumulators(cur[e][q])

CycleStep ==
  /\ InLayers' => IncrementsComputed'
  /\ (InLayers' /\ ~InLayers) => pc = "qpstrain"
  /\ (pc' = "qpfinish") => (pc = "layerfin" /\ loc'.i = cfg.nlayers /\ qp' = qp)
  /\ \A e \in cfg.elems, q \in Qps :
       AccumulatorsWritten(e, q) =>
         (pc = "qpfinish" /\ loc.i = cfg.nlayers /\ e = elem /\ q = qp)
  /\ (pc' = "stiffness") => (pc = "qpfinish" /\ qp = cfg.nqp /\ jac)
  /\ (K' # K) => pc = "stiffness"
  /\ (pc' = "failed" /\ pc # "failed") =>
        /\ pc = "newton" /\ K' = K
        /\ Accumulators(cur[elem][qp])' = Accumulators(cur[elem][qp])
  /\ (pc = "failed") =>
        /\ pc' = "qpstrain" /\ qp' = 1 /\ loc' = InitLoc
        /\ K' = K
        /\ \A e \in cfg.elems, q \in Qps : ~AccumulatorsWritten(e, q)

(***************************************************************************)
(* C24: each call follows the cycle in order.  The rotation is set and the *)
(* increments are computed before any layer is return-mapped; the total    *)
(* strain accumulators of a quadrature point are written only after all    *)
(* its layers have been return-mapped and integrated; the stiffness        *)
(* assembly starts only after the last quadrature point, in a Jacobian     *)
(* call; a convergence failure comes out of the Newton loop of a layer,    *)
(* writes no accumulator of that point and no stiffness block, and the     *)
(* failed call takes no further step: the next step starts a new call.     *)
(***************************************************************************)
C24_CycleInOrder == [][CycleStep]_vars

(* a Jacobian call has failed at a layer; the blocks are those of an earlier call *)
C24_Witness ==
  /\ pc = "failed" /\ jac /\ status[elem] = "failed"
  /\ loc.iteration > max_its
  /\ K[elem] # ZeroBlocks
  /\ Accumulators(cur[elem][1]) # <<VZero, VZero>>

(***************************************************************************)
(* Vocabulary of the antisymmetry about the neutral axis.                  *)
(***************************************************************************)
(* the layer opposite to layer i (1-based) *)
Opposite(i) == cfg.nlayers + 1 - i

MiddleLayers == { i \in Layers : Opposite(i) = i }

Antisymmetric(s) ==
  /\ \A i \in Layers :
       /\ s.direct_stress[i] = RNeg(s.direct_stress[Opposite(i)])
       /\ s.plastic_strain[i] = RNeg(s.plastic_strain[Opposite(i)])
       /\ s.hardening_variable[i] = s.hardening_variable[Opposite(i)]
  /\ \A i \in MiddleLayers :
       s.direct_stress[i] = R0 /\ s.plastic_strain[i] = R0

(***************************************************************************)
(* C25: with linear hardening the layer state stays antisymmetric about    *)
(* the neutral axis.  In the previous-step state, and in the current state *)
(* after every returned call, a layer and the layer opposite to it have    *)
(* opposite direct stress, opposite plastic strain and equal hardening     *)
(* variable, and the middle layer of an odd number of layers has zero      *)
(* stress and zero plastic strain.                                         *)
(***************************************************************************)
C25_AntisymmetryPreserved ==
  LinearHardening =>
    \A e \in cfg.elems, q \in Qps :
      /\ Antisymmetric(old[e][q])
      /\ Returned(e) => Antisymmetric(cur[e][q])

(* three layers, yielded in an earlier step and yielding again *)
C25_Witness ==
  /\ pc = "done" /\ Returned(elem) /\ LinearHardening /\ step >= 1
  /\ cfg.nlayers = 3
  /\ old[elem][qp].plastic_strain[1] # R0
  /\ cur[elem][qp].plastic_strain[1] # old[elem][qp].plastic_strain[1]
  /\ cur[elem][qp].plastic_strain[3] = RNeg(cur[elem][qp].plastic_strain[1])
  /\ cur[elem][qp].direct_stress[3] # R0
  /\ cur[elem][qp].hardening_variable[3] # R0

====
